---- MODULE Spec2Model ----
(***************************************************************************)
(* Credit card manager bot: the record store (src/src/database.py), the    *)
(* form manager (src/src/form_manager.py) and the handlers that drive the  *)
(* wizard (src/src/handlers.py), as one state machine.                     *)
(*                                                                         *)
(* Texts are sequences of one-character strings, so that the validators    *)
(* and the normalisations are computed character by character, as the      *)
(* code computes them.  A Python dict is a function whose DOMAIN is the    *)
(* set of its keys.  A nullable value (None / SQL NULL) is a set with at   *)
(* most one element: {} is None, {v} is the value v.                       *)
(***************************************************************************)
EXTENDS Integers, Sequences, FiniteSets, TLC

\* ------------------------------------------------------------------ bounds
\* Number of owners (Telegram user ids 1..NumUsers).
NumUsers == 2
\* Largest id the AUTOINCREMENT counter of credit_cards may hand out.
MaxCards == 2
\* Number of events one run of Spec handles.
MaxEvents == 3
\* Number of callers of add_credit_card that run at the same time in SpecRace.
NumCallers == 2

Users == 1..NumUsers
CardIds == 1..MaxCards
Callers == 1..NumCallers

\* ------------------------------------------------------------------- state
VARIABLES
    credit_cards,    \* the rows of table credit_cards
    card_seq,        \* the AUTOINCREMENT counter of credit_cards.id
    user_sessions,   \* the rows of table user_sessions
    form_shown,      \* the users whose chat holds a message with the form's buttons
    conns,           \* per caller, the add_credit_card call it has in progress
    events,          \* per caller, the form event it is handling (SpecSession)
    now,             \* the store's clock, in seconds (CURRENT_TIMESTAMP)
    last,            \* the event handled last, with what it returned
    steps            \* number of events handled (bounded in Spec only)

\* ------------------------------------------------------ python / sql values
None == {}
Some(v) == {v}
\* The value inside a non-None optional.
The(o) == CHOOSE v \in o : TRUE

Digits == {"0", "1", "2", "3", "4", "5", "6", "7", "8", "9"}

\* str.isdigit on one (ASCII) character.
IsDigit(c) == c \in Digits

DigitVal(c) ==
    CASE c = "0" -> 0 [] c = "1" -> 1 [] c = "2" -> 2 [] c = "3" -> 3
      [] c = "4" -> 4 [] c = "5" -> 5 [] c = "6" -> 6 [] c = "7" -> 7
      [] c = "8" -> 8 [] c = "9" -> 9

\* The value of a non-empty string of digits, most significant first.
RECURSIVE DigitsToNat(_)
DigitsToNat(s) ==
    IF s = <<>> THEN 0
    ELSE 10 * DigitsToNat(SubSeq(s, 1, Len(s) - 1)) + DigitVal(s[Len(s)])

AllDigits(s) == \A i \in 1..Len(s) : IsDigit(s[i])

\* str.strip() for the blank character.
RECURSIVE Strip(_)
Strip(s) ==
    IF s = <<>> THEN s
    ELSE IF Head(s) = " " THEN Strip(Tail(s))
    ELSE IF s[Len(s)] = " " THEN Strip(SubSeq(s, 1, Len(s) - 1))
    ELSE s

\* text.split(sep) for a one-character separator.
RECURSIVE Split(_, _)
Split(s, sep) ==
    IF \A i \in 1..Len(s) : s[i] # sep THEN <<s>>
    ELSE LET k == CHOOSE i \in 1..Len(s) :
                      s[i] = sep /\ \A j \in 1..(i - 1) : s[j] # sep
         IN  <<SubSeq(s, 1, k - 1)>> \o Split(SubSeq(s, k + 1, Len(s)), sep)

\* text.replace(c, '') for a one-character c.
Remove(s, c) == LET Keep(x) == x # c IN SelectSeq(s, Keep)

\* int(text): None when Python raises ValueError, else the value.  Python
\* strips surrounding whitespace, takes one optional sign before the digits,
\* and takes single underscores between digits.
python_int(text) ==
    LET t == Strip(text)
        signed == t # <<>> /\ Head(t) \in {"+", "-"}
        body == IF signed THEN Tail(t) ELSE t
        groups == Split(body, "_")
        digits == Remove(body, "_")
    IN  IF \E i \in 1..Len(groups) : groups[i] = <<>> \/ ~AllDigits(groups[i]) THEN None
        ELSE IF signed /\ Head(t) = "-" THEN Some(0 - DigitsToNat(digits))
        ELSE Some(DigitsToNat(digits))

\* ''.join(filter(str.isdigit, text))
FilterDigits(text) == SelectSeq(text, IsDigit)

\* -------------------------------------------------------------- validators
\* The bank name check of handle_text_message: len(text) < 2 is rejected.
validate_bank_name(text) == ~(Len(text) < 2)

\* validate_card_number with 20 digits as the upper limit of a full number.
validate_card_number_to_20(card_number) ==
    LET allowed_chars == Digits \cup {" ", "-"}
        cleaned == FilterDigits(card_number)
    IN  IF ~(\A i \in 1..Len(card_number) : card_number[i] \in allowed_chars)
        THEN FALSE
        ELSE IF Len(cleaned) = 4 THEN TRUE
        ELSE IF 13 <= Len(cleaned) /\ Len(cleaned) <= 20 THEN TRUE
        ELSE FALSE

validate_card_number(card_number) ==
    LET allowed_chars == Digits \cup {" ", "-"}
        cleaned == FilterDigits(card_number)
    IN  IF ~(\A i \in 1..Len(card_number) : card_number[i] \in allowed_chars)
        THEN FALSE
        ELSE IF Len(cleaned) = 4 THEN TRUE
        ELSE IF 13 <= Len(cleaned) /\ Len(cleaned) <= 19 THEN TRUE
        ELSE FALSE

\* validate_expiry_date without the range check on the month.
validate_expiry_date_any_month(expiry_date) ==
    LET parts == Split(expiry_date, "/")
    IN  IF \A i \in 1..Len(expiry_date) : expiry_date[i] # "/" THEN FALSE
        ELSE IF Len(parts) # 2 THEN FALSE
        ELSE LET month == python_int(parts[1])
                 year == python_int(parts[2])
             IN  IF month = None \/ year = None THEN FALSE
                 ELSE IF ~(2020 <= The(year) /\ The(year) <= 2030) THEN FALSE
                 ELSE TRUE

validate_expiry_date(expiry_date) ==
    LET parts == Split(expiry_date, "/")
    IN  IF \A i \in 1..Len(expiry_date) : expiry_date[i] # "/" THEN FALSE
        ELSE IF Len(parts) # 2 THEN FALSE
        ELSE LET month == python_int(parts[1])
                 year == python_int(parts[2])
             IN  IF month = None \/ year = None THEN FALSE
                 ELSE IF ~(1 <= The(month) /\ The(month) <= 12) THEN FALSE
                 ELSE IF ~(2020 <= The(year) /\ The(year) <= 2030) THEN FALSE
                 ELSE TRUE

\* validate_cvv without the isdigit check.
validate_cvv_any_chars(cvv) == 3 <= Len(cvv) /\ Len(cvv) <= 4

validate_cvv(cvv) ==
    IF ~(cvv # <<>> /\ AllDigits(cvv)) THEN FALSE
    ELSE 3 <= Len(cvv) /\ Len(cvv) <= 4

validate_billing_date(billing_date) ==
    LET day == python_int(billing_date)
    IN  IF day = None THEN FALSE ELSE 1 <= The(day) /\ The(day) <= 31

\* float(text) in hundredths: None when Python raises ValueError.  Covers
\* the decimal notation [sign] digits [ . digits ] with at most two digits
\* after the point, which is all AmountTexts contains.
python_float(text) ==
    LET t == Strip(text)
        signed == t # <<>> /\ Head(t) \in {"+", "-"}
        body == IF signed THEN Tail(t) ELSE t
        parts == Split(body, ".")
        whole == parts[1]
        frac == IF Len(parts) = 2 THEN parts[2] ELSE <<>>
        cents == 100 * DigitsToNat(whole)
                 + (IF Len(frac) = 1 THEN 10 * DigitsToNat(frac) ELSE DigitsToNat(frac))
    IN  IF Len(parts) > 2 \/ ~AllDigits(whole) \/ ~AllDigits(frac)
           \/ (whole = <<>> /\ frac = <<>>) \/ Len(frac) > 2
        THEN None
        ELSE IF signed /\ Head(t) = "-" THEN Some(0 - cents) ELSE Some(cents)

\* amount.replace('$', '').replace(',', '').replace(' ', '')
clean_amount(amount) == Remove(Remove(Remove(amount, "$"), ","), " ")

validate_bill_amount(amount) ==
    LET value == python_float(clean_amount(amount))
    IN  IF value = None THEN FALSE ELSE The(value) > 0

validate_grace_days(grace_days) ==
    LET days == python_int(grace_days)
    IN  IF days = None THEN FALSE ELSE 1 <= The(days) /\ The(days) <= 60

\* ------------------------------------------------------------------- dates
\* A datetime is [y, m, d]; the time of day never changes in the code's
\* arithmetic (replace() keeps it), so comparing two values derived from
\* the same "now" compares their dates.
IsLeap(y) == (y % 4 = 0 /\ y % 100 # 0) \/ y % 400 = 0

DaysInMonth(y, m) ==
    IF m = 2 THEN (IF IsLeap(y) THEN 29 ELSE 28)
    ELSE IF m \in {4, 6, 9, 11} THEN 30
    ELSE 31

DateLeq(a, b) ==
    \/ a.y < b.y
    \/ a.y = b.y /\ a.m < b.m
    \/ a.y = b.y /\ a.m = b.m /\ a.d <= b.d

\* datetime.replace(...): None when Python raises ValueError (the day does
\* not exist in the month).
replace_date(y, m, d) ==
    IF m \in 1..12 /\ d \in 1..DaysInMonth(y, m) THEN Some([y |-> y, m |-> m, d |-> d])
    ELSE None

\* "Add one month" as update_billing_info and mark_bill_paid write it.
add_one_month(dt) ==
    IF dt.m = 12 THEN replace_date(dt.y + 1, 1, dt.d)
    ELSE replace_date(dt.y, dt.m + 1, dt.d)

DigitChar(n) ==
    CASE n = 0 -> "0" [] n = 1 -> "1" [] n = 2 -> "2" [] n = 3 -> "3"
      [] n = 4 -> "4" [] n = 5 -> "5" [] n = 6 -> "6" [] n = 7 -> "7"
      [] n = 8 -> "8" [] n = 9 -> "9"

\* n in decimal, zero-padded to w characters.
RECURSIVE ZeroPad(_, _)
ZeroPad(n, w) ==
    IF w = 0 THEN <<>> ELSE ZeroPad(n \div 10, w - 1) \o <<DigitChar(n % 10)>>

\* date.isoformat(), the text sqlite3 stores for a date: YYYY-MM-DD.
isoformat(dt) ==
    ZeroPad(dt.y, 4) \o <<"-">> \o ZeroPad(dt.m, 2) \o <<"-">> \o ZeroPad(dt.d, 2)

\* datetime.strptime(text, '%Y-%m-%d'): None when it raises ValueError.
strptime(text) ==
    LET parts == Split(text, "-")
    IN  IF Len(parts) # 3 THEN None
        ELSE IF \E i \in 1..3 : parts[i] = <<>> \/ ~AllDigits(parts[i]) THEN None
        ELSE IF Len(parts[1]) # 4 \/ Len(parts[2]) > 2 \/ Len(parts[3]) > 2 THEN None
        ELSE replace_date(DigitsToNat(parts[1]), DigitsToNat(parts[2]),
                          DigitsToNat(parts[3]))

\* ------------------------------------------------------------ python dicts
EmptyDict == <<>>
DictGet(d, k) == IF k \in DOMAIN d THEN Some(d[k]) ELSE None
DictSet(d, k, v) == [x \in (DOMAIN d) \cup {k} |-> IF x = k THEN v ELSE d[x]]
\* Truth value of an optional text (None and '' are falsy).
TruthyText(o) == o # None /\ The(o) # <<>>
\* Truth value of an optional integer (None and 0 are falsy).
TruthyInt(o) == o # None /\ The(o) # 0

\* ------------------------------------------------------- form states (enum)
IDLE == "idle"
WAITING_BANK_NAME == "waiting_bank_name"
WAITING_CARD_NUMBER == "waiting_card_number"
WAITING_EXPIRY_DATE == "waiting_expiry_date"
WAITING_CVV == "waiting_cvv"
WAITING_BILLING_DATE == "waiting_billing_date"
WAITING_BILL_AMOUNT == "waiting_bill_amount"
WAITING_GRACE_DAYS == "waiting_grace_days"

FormState ==
    {IDLE, WAITING_BANK_NAME, WAITING_CARD_NUMBER, WAITING_EXPIRY_DATE, WAITING_CVV,
     WAITING_BILLING_DATE, WAITING_BILL_AMOUNT, WAITING_GRACE_DAYS}

\* ------------------------------------------------------------ record store
\* credit_cards is the set of rows of the table of that name, card_seq the
\* AUTOINCREMENT counter of its id column.  Every operation takes the table
\* and returns the table it leaves behind together with its return value.

\* SQLite's LIKE: '%' matches any run of characters, '_' any one character,
\* every other character matches itself, ASCII letters without regard to case.
UpperCase == <<"A", "B", "C", "D", "E", "F", "G", "H", "I", "J", "K", "L", "M",
               "N", "O", "P", "Q", "R", "S", "T", "U", "V", "W", "X", "Y", "Z">>
LowerCase == <<"a", "b", "c", "d", "e", "f", "g", "h", "i", "j", "k", "l", "m",
               "n", "o", "p", "q", "r", "s", "t", "u", "v", "w", "x", "y", "z">>
Lower(c) ==
    IF \E i \in 1..Len(UpperCase) : UpperCase[i] = c
    THEN LowerCase[CHOOSE i \in 1..Len(UpperCase) : UpperCase[i] = c]
    ELSE c

RECURSIVE Like(_, _)
Like(pattern, text) ==
    IF pattern = <<>> THEN text = <<>>
    ELSE IF Head(pattern) = "%"
         THEN \E k \in 0..Len(text) : Like(Tail(pattern), SubSeq(text, k + 1, Len(text)))
    ELSE IF text = <<>> THEN FALSE
    ELSE IF Head(pattern) = "_" \/ Lower(Head(pattern)) = Lower(Head(text))
         THEN Like(Tail(pattern), Tail(text))
    ELSE FALSE

\* The row INSERT INTO credit_cards builds: the billing columns take their
\* defaults (NULL, bill_status 'pending', payment_grace_days 21,
\* created_at CURRENT_TIMESTAMP; updated_at is not modelled).
NewCard(id, user_id, bank_name, card_number, expiry_date, cvv, full_card_number) ==
    [id |-> id, user_id |-> user_id, bank_name |-> bank_name,
     card_number |-> card_number, expiry_date |-> expiry_date, cvv |-> cvv,
     full_card_number |-> full_card_number, billing_date |-> None,
     bill_amount |-> None, last_bill_date |-> None, next_bill_date |-> None,
     bill_status |-> "pending", payment_grace_days |-> 21, created_at |-> now]

\* add_credit_card on a table without UNIQUE(user_id, card_number).
add_credit_card_no_unique(cards, seq, user_id, bank_name, card_number, expiry_date, cvv, full_card_number, fault) ==
    IF fault
    THEN [cards |-> cards, seq |-> seq, ret |-> FALSE, raised |-> "Exception"]
    ELSE [cards |-> cards \cup {NewCard(seq + 1, user_id, bank_name, card_number,
                                        expiry_date, cvv, full_card_number)},
          seq |-> seq + 1, ret |-> TRUE, raised |-> "none"]

\* fault: the storage fails on this call for a reason of its own (the file
\* cannot be opened or written): sqlite3 raises an error that is not an
\* IntegrityError, and "except Exception" catches it.  raised names the
\* except clause that ran; the caller gets ret alone.
\* add_credit_card on a table whose id is INTEGER PRIMARY KEY without
\* AUTOINCREMENT: the new id is one more than the largest id in the table.
add_credit_card_max_rowid(cards, seq, user_id, bank_name, card_number, expiry_date, cvv, full_card_number, fault) ==
    LET largest == IF cards = {} THEN 0
                   ELSE CHOOSE n \in {c.id : c \in cards} : \A c \in cards : c.id <= n
    IN  IF fault
        THEN [cards |-> cards, seq |-> seq, ret |-> FALSE, raised |-> "Exception"]
        ELSE IF \E c \in cards : c.user_id = user_id /\ c.card_number = card_number
        THEN [cards |-> cards, seq |-> seq, ret |-> FALSE, raised |-> "IntegrityError"]
        ELSE [cards |-> cards \cup {NewCard(largest + 1, user_id, bank_name, card_number,
                                            expiry_date, cvv, full_card_number)},
              seq |-> largest + 1, ret |-> TRUE, raised |-> "none"]

add_credit_card(cards, seq, user_id, bank_name, card_number, expiry_date, cvv, full_card_number, fault) ==
    IF fault
    THEN [cards |-> cards, seq |-> seq, ret |-> FALSE, raised |-> "Exception"]
    ELSE IF \E c \in cards : c.user_id = user_id /\ c.card_number = card_number
    THEN \* UNIQUE(user_id, card_number): sqlite3.IntegrityError
         [cards |-> cards, seq |-> seq, ret |-> FALSE, raised |-> "IntegrityError"]
    ELSE [cards |-> cards \cup {NewCard(seq + 1, user_id, bank_name, card_number,
                                        expiry_date, cvv, full_card_number)},
          seq |-> seq + 1, ret |-> TRUE, raised |-> "none"]

\* ORDER BY created_at DESC: the lists of the rows in which no row stands
\* before a row with a later created_at.  SQL leaves the order of rows with
\* equal created_at open.
order_by_created_at_desc(rows) ==
    {l \in [1..Cardinality(rows) -> rows] :
        /\ \A i, j \in 1..Cardinality(rows) : i # j => l[i] # l[j]
        /\ \A i, j \in 1..Cardinality(rows) : i < j => l[i].created_at >= l[j].created_at}

\* The rows of the owner, as a set; the list returned is one of
\* order_by_created_at_desc of this set.
get_user_cards(cards, user_id) == {c \in cards : c.user_id = user_id}

\* get_card_by_id with "WHERE id = ?" only.
get_card_by_id_any_owner(cards, user_id, card_id) ==
    {c \in cards : c.id = card_id}

get_card_by_id(cards, user_id, card_id) ==
    {c \in cards : c.user_id = user_id /\ c.id = card_id}

\* The rows found, as a set; the list returned is one of
\* order_by_created_at_desc of this set.
get_cards_by_bank_or_number(cards, user_id, search_term) ==
    LET pattern == <<"%">> \o search_term \o <<"%">>
    IN  {c \in cards : c.user_id = user_id
                       /\ (Like(pattern, c.bank_name) \/ Like(pattern, c.card_number))}

\* delete_card with "WHERE id = ?" only.
delete_card_any_owner(cards, user_id, card_id) ==
    LET hit == {c \in cards : c.id = card_id}
    IN  [cards |-> cards \ hit, ret |-> Cardinality(hit) > 0]

delete_card(cards, user_id, card_id) ==
    LET hit == {c \in cards : c.user_id = user_id /\ c.id = card_id}
    IN  [cards |-> cards \ hit, ret |-> Cardinality(hit) > 0]

\* today.replace(day=billing_date), rolled into the next month when it is
\* not after today; None when either replace() raises ValueError.
next_bill_after(today, billing_date) ==
    LET next_bill == replace_date(today.y, today.m, billing_date)
    IN  IF next_bill = None THEN None
        ELSE IF DateLeq(The(next_bill), today) THEN add_one_month(The(next_bill))
        ELSE next_bill

\* update_billing_info that also writes the next bill date into expiry_date.
update_billing_info_sets_expiry(cards, user_id, card_id, billing_date, bill_amount, grace_days, today) ==
    LET next_bill == next_bill_after(today, billing_date)
        hit == {c \in cards : c.user_id = user_id /\ c.id = card_id}
        Upd(c) == [c EXCEPT !.billing_date = Some(billing_date),
                            !.bill_amount = Some(bill_amount),
                            !.next_bill_date = Some(isoformat(The(next_bill))),
                            !.expiry_date = isoformat(The(next_bill)),
                            !.payment_grace_days = grace_days,
                            !.bill_status = "pending"]
    IN  IF next_bill = None
        THEN [cards |-> cards, ret |-> FALSE]
        ELSE [cards |-> (cards \ hit) \cup {Upd(c) : c \in hit},
              ret |-> Cardinality(hit) > 0]

update_billing_info(cards, user_id, card_id, billing_date, bill_amount, grace_days, today) ==
    LET next_bill == next_bill_after(today, billing_date)
        hit == {c \in cards : c.user_id = user_id /\ c.id = card_id}
        Upd(c) == [c EXCEPT !.billing_date = Some(billing_date),
                            !.bill_amount = Some(bill_amount),
                            !.next_bill_date = Some(isoformat(The(next_bill))),
                            !.payment_grace_days = grace_days,
                            !.bill_status = "pending"]
    IN  IF next_bill = None
        THEN \* ValueError, caught by "except Exception"
             [cards |-> cards, ret |-> FALSE]
        ELSE [cards |-> (cards \ hit) \cup {Upd(c) : c \in hit},
              ret |-> Cardinality(hit) > 0]

mark_bill_paid(cards, user_id, card_id, today) ==
    LET hit == {c \in cards : c.user_id = user_id /\ c.id = card_id}
        result == The(hit)
        current_next_bill == result.next_bill_date
        parsed == IF current_next_bill # None THEN strptime(The(current_next_bill))
                  ELSE Some(today)
        next_bill == IF parsed = None THEN None ELSE add_one_month(The(parsed))
        Upd(c) == [c EXCEPT !.last_bill_date = current_next_bill,
                            !.next_bill_date = Some(isoformat(The(next_bill))),
                            !.bill_status = "paid"]
    IN  IF hit = {} THEN [cards |-> cards, ret |-> FALSE]
        ELSE IF next_bill = None
        THEN \* ValueError, caught by "except Exception"
             [cards |-> cards, ret |-> FALSE]
        ELSE [cards |-> (cards \ hit) \cup {Upd(c) : c \in hit}, ret |-> TRUE]

\* update_bill_amount with "WHERE id = ?" only.
update_bill_amount_any_owner(cards, user_id, card_id, new_amount) ==
    LET hit == {c \in cards : c.id = card_id}
    IN  [cards |-> (cards \ hit) \cup {[c EXCEPT !.bill_amount = Some(new_amount)] : c \in hit},
         ret |-> Cardinality(hit) > 0]

update_bill_amount(cards, user_id, card_id, new_amount) ==
    LET hit == {c \in cards : c.user_id = user_id /\ c.id = card_id}
    IN  [cards |-> (cards \ hit) \cup {[c EXCEPT !.bill_amount = Some(new_amount)] : c \in hit},
         ret |-> Cardinality(hit) > 0]

\* update_payment_grace_days that also resets bill_status, as
\* update_billing_info does.
update_payment_grace_days_pending(cards, user_id, card_id, grace_days) ==
    LET hit == {c \in cards : c.user_id = user_id /\ c.id = card_id}
    IN  [cards |-> (cards \ hit)
                   \cup {[c EXCEPT !.payment_grace_days = grace_days,
                                   !.bill_status = "pending"] : c \in hit},
         ret |-> Cardinality(hit) > 0]

update_payment_grace_days(cards, user_id, card_id, grace_days) ==
    LET hit == {c \in cards : c.user_id = user_id /\ c.id = card_id}
    IN  [cards |-> (cards \ hit)
                   \cup {[c EXCEPT !.payment_grace_days = grace_days] : c \in hit},
         ret |-> Cardinality(hit) > 0]

\* ----------------------------------------------------------- session store
\* save_user_session with a plain INSERT into a table without UNIQUE(user_id).
save_user_session_insert(sessions, user_id, state, form_data) ==
    sessions \cup {[user_id |-> user_id, current_state |-> state, form_data |-> form_data]}

\* user_sessions is the set of rows of the table of that name.  form_data
\* holds the dict itself: json.dumps and json.loads are inverse to each
\* other on the dicts the program writes (text keys, text or integer
\* values), and nothing but the program writes the column.
save_user_session(sessions, user_id, state, form_data) ==
    \* INSERT OR REPLACE: the row that conflicts on UNIQUE(user_id) goes first
    {s \in sessions : s.user_id # user_id}
        \cup {[user_id |-> user_id, current_state |-> state, form_data |-> form_data]}

get_user_session(sessions, user_id) == {s \in sessions : s.user_id = user_id}

clear_user_session(sessions, user_id) == {s \in sessions : s.user_id # user_id}

\* ------------------------------------------------------------ form manager
BaseFields == {"bank_name", "card_number", "expiry_date", "cvv", "full_card_number"}

\* start_add_card_form keeping the scratch of a session that exists.
start_add_card_form_keeps(sessions, user_id) ==
    LET session == {s \in sessions : s.user_id = user_id}
    IN  save_user_session(sessions, user_id, IDLE,
                          IF session # {} THEN (CHOOSE s \in session : TRUE).form_data
                          ELSE [k \in BaseFields |-> <<>>])

start_add_card_form(sessions, user_id) ==
    save_user_session(sessions, user_id, IDLE, [k \in BaseFields |-> <<>>])

get_form_data(sessions, user_id) ==
    LET session == get_user_session(sessions, user_id)
    IN  IF session # None THEN Some(The(session).form_data) ELSE None

get_current_state(sessions, user_id) ==
    LET session == get_user_session(sessions, user_id)
    IN  IF session # None THEN The(session).current_state ELSE IDLE

\* set_state that saves the state with an empty form data.
set_state_fresh(sessions, user_id, state) ==
    save_user_session(sessions, user_id, state, EmptyDict)

set_state(sessions, user_id, state) ==
    LET got == get_form_data(sessions, user_id)
        \* "get_form_data(user_id) or {}": None and the empty dict are falsy
        form_data == IF got # None /\ DOMAIN The(got) # {} THEN The(got) ELSE EmptyDict
    IN  save_user_session(sessions, user_id, state, form_data)

\* update_form_field starting from the empty dict when there is no session
\* ("get_form_data(user_id) or {}", as set_state does).
update_form_field_creates(sessions, user_id, field, value) ==
    LET form_data == get_form_data(sessions, user_id)
    IN  [sessions |-> save_user_session(sessions, user_id,
                                        get_current_state(sessions, user_id),
                                        DictSet(IF form_data = None THEN EmptyDict
                                                ELSE The(form_data), field, value)),
         ret |-> TRUE]

update_form_field(sessions, user_id, field, value) ==
    LET form_data == get_form_data(sessions, user_id)
    IN  IF form_data = None THEN [sessions |-> sessions, ret |-> FALSE]
        ELSE [sessions |-> save_user_session(sessions, user_id,
                                             get_current_state(sessions, user_id),
                                             DictSet(The(form_data), field, value)),
              ret |-> TRUE]

\* is_form_complete without the check of the cvv under a full card number.
is_form_complete_no_cvv(sessions, user_id) ==
    LET form_data == get_form_data(sessions, user_id)
    IN  IF form_data = None \/ DOMAIN The(form_data) = {} THEN FALSE
        ELSE IF \E field \in {"bank_name", "card_number", "expiry_date"} :
                    ~TruthyText(DictGet(The(form_data), field))
        THEN FALSE
        ELSE TRUE

is_form_complete(sessions, user_id) ==
    LET form_data == get_form_data(sessions, user_id)
    IN  IF form_data = None \/ DOMAIN The(form_data) = {} THEN FALSE
        ELSE IF \E field \in {"bank_name", "card_number", "expiry_date"} :
                    ~TruthyText(DictGet(The(form_data), field))
        THEN FALSE
        ELSE IF TruthyText(DictGet(The(form_data), "full_card_number"))
                /\ ~TruthyText(DictGet(The(form_data), "cvv"))
        THEN FALSE
        ELSE TRUE

clear_form(sessions, user_id) == clear_user_session(sessions, user_id)

vars ==
    <<credit_cards, card_seq, user_sessions, form_shown, conns, events, now, last, steps>>

\* What an event leaves in "last": op names the handler or store method,
\* card_id and text are its arguments (0 and the empty text when it has
\* none), ret is the value the store method it called returned ("None" when
\* it called none) and reply names the message sent back.  raised names the
\* exception that add_credit_card caught, for the events that call it, rows
\* the list a query returned, before the state the owner's session was in
\* when /add_card, Done or Cancel arrived.
Event(op, user, card_id, text, ret, reply) ==
    [op |-> op, user |-> user, card_id |-> card_id, text |-> text,
     ret |-> ret, reply |-> reply, raised |-> "none", rows |-> <<>>,
     before |-> "none"]

BoolText(b) == IF b THEN "True" ELSE "False"

\* A caller that is not inside add_credit_card.
NoCall ==
    [pc |-> "idle", user_id |-> 0, card_number |-> <<>>, ret |-> "None",
     raised |-> "none", concurrent |-> {}]

\* A caller that is handling no form event.  While it handles one, seen
\* holds the rows its last get_form_data read, state the current_state that
\* update_form_field read, target the state its set_state sets, replaced and
\* wrote the row its last save_user_session found and the row it left.
NoEvent ==
    [pc |-> "idle", op |-> "none", user_id |-> 0, field |-> "none", value |-> <<>>,
     seen |-> {}, state |-> IDLE, target |-> IDLE, replaced |-> {}, wrote |-> {},
     reply |-> "none"]

Init ==
    /\ credit_cards = {}
    /\ card_seq = 0
    /\ user_sessions = {}
    /\ form_shown = {}
    /\ conns = [p \in Callers |-> NoCall]
    /\ events = [p \in Callers |-> NoEvent]
    /\ now = 0
    /\ last = Event("init", 0, 0, <<>>, "None", "none")
    /\ steps = 0

\* ---------------------------------------------------------------- handlers
\* The reply carries the keyboard of the form (Bank Name, Card Number,
\* Expiry Date, CVV, Done, Cancel); the message stays in the chat, and its
\* buttons can be pressed at any later time.
add_card_command(u) ==
    /\ user_sessions' = start_add_card_form(user_sessions, u)
    /\ form_shown' = form_shown \cup {u}
    /\ last' = [Event("add_card_command", u, 0, <<>>, "None", "form")
                   EXCEPT !.before = get_current_state(user_sessions, u)]
    /\ UNCHANGED <<credit_cards, card_seq>>

FormFields == {"bank_name", "card_number", "expiry_date", "cvv"}

FieldState(field) ==
    CASE field = "bank_name" -> WAITING_BANK_NAME
      [] field = "card_number" -> WAITING_CARD_NUMBER
      [] field = "expiry_date" -> WAITING_EXPIRY_DATE
      [] field = "cvv" -> WAITING_CVV

handle_form_field_callback(u, field) ==
    /\ u \in form_shown
    /\ user_sessions' = set_state(user_sessions, u, FieldState(field))
    /\ last' = Event("form_field", u, 0, <<>>, "None", field)
    /\ UNCHANGED <<credit_cards, card_seq>>

\* _show_form_status reads four keys of the form data with [] once it has
\* found the data truthy: a missing key raises KeyError.
\* It sends the form's buttons again, to a user who already has them: the
\* four keys come from start_add_card_form alone.
show_form_status(sessions, u) ==
    LET form_data == get_form_data(sessions, u)
    IN  IF form_data = None \/ DOMAIN The(form_data) = {} THEN "none"
        ELSE IF FormFields \subseteq DOMAIN The(form_data) THEN "form_status"
        ELSE "KeyError"

\* text_plain_field without the set_state(IDLE) that follows the update.
text_plain_field_no_idle(u, text, field) ==
    LET s1 == update_form_field(user_sessions, u, field, text).sessions
    IN  /\ user_sessions' = s1
        /\ last' = Event("text", u, 0, text, "None", show_form_status(s1, u))
        /\ UNCHANGED <<credit_cards, card_seq>>

\* handle_text_message for the fields of the add-card form whose text is
\* stored as entered: bank name, expiry date, cvv.
text_plain_field(u, text, field) ==
    LET s1 == update_form_field(user_sessions, u, field, text).sessions
        s2 == set_state(s1, u, IDLE)
    IN  /\ user_sessions' = s2
        /\ last' = Event("text", u, 0, text, "None", show_form_status(s2, u))
        /\ UNCHANGED <<credit_cards, card_seq>>

\* text_card_number taking the leading four digits (cleaned[:4]) as the
\* card number of a full number.
text_card_number_leading(u, text) ==
    LET cleaned == FilterDigits(text)
        s1 == IF Len(cleaned) = 4
              THEN update_form_field(user_sessions, u, "card_number", cleaned).sessions
              ELSE update_form_field(
                       update_form_field(user_sessions, u, "card_number",
                                         SubSeq(cleaned, 1, 4)).sessions,
                       u, "full_card_number", cleaned).sessions
        s2 == set_state(s1, u, IDLE)
    IN  /\ user_sessions' = s2
        /\ last' = Event("text", u, 0, text, "None", show_form_status(s2, u))
        /\ UNCHANGED <<credit_cards, card_seq>>

text_card_number(u, text) ==
    LET cleaned == FilterDigits(text)
        s1 == IF Len(cleaned) = 4
              THEN update_form_field(user_sessions, u, "card_number", cleaned).sessions
              ELSE update_form_field(
                       update_form_field(user_sessions, u, "card_number",
                                         SubSeq(cleaned, Len(cleaned) - 3, Len(cleaned))).sessions,
                       u, "full_card_number", cleaned).sessions
        s2 == set_state(s1, u, IDLE)
    IN  /\ user_sessions' = s2
        /\ last' = Event("text", u, 0, text, "None", show_form_status(s2, u))
        /\ UNCHANGED <<credit_cards, card_seq>>

\* text_rejected that also leaves the awaiting state.
text_rejected_to_idle(u, text) ==
    /\ user_sessions' = set_state(user_sessions, u, IDLE)
    /\ last' = Event("text", u, 0, text, "None", "rejected")
    /\ UNCHANGED <<credit_cards, card_seq>>

text_rejected(u, text) ==
    /\ last' = Event("text", u, 0, text, "None", "rejected")
    /\ UNCHANGED <<credit_cards, card_seq, user_sessions>>

text_billing_date(u, text) ==
    LET s1 == update_form_field(user_sessions, u, "billing_date", text).sessions
    IN  /\ user_sessions' = set_state(s1, u, WAITING_BILL_AMOUNT)
        /\ last' = Event("text", u, 0, text, "None", "enter_amount")
        /\ UNCHANGED <<credit_cards, card_seq>>

\* _handle_billing_form_done, on the sessions the text handler leaves.
handle_billing_form_done(u, text, sessions, today) ==
    LET got == get_form_data(sessions, u)
        form_data == The(got)
        card_id == DictGet(form_data, "card_id")
        full == update_billing_info(credit_cards, u, The(card_id),
                                    The(python_int(form_data["billing_date"])),
                                    The(python_float(form_data["bill_amount"])), 21, today)
        only == update_bill_amount(credit_cards, u, The(card_id),
                                   The(python_float(form_data["bill_amount"])))
    IN  IF got = None \/ DOMAIN form_data = {}
           \/ ~TruthyText(DictGet(form_data, "bill_amount"))
        THEN /\ user_sessions' = sessions
             /\ last' = Event("text", u, 0, text, "None", "amount_required")
             /\ UNCHANGED <<credit_cards, card_seq>>
        ELSE IF ~TruthyInt(card_id)
        THEN /\ user_sessions' = sessions
             /\ last' = Event("text", u, 0, text, "None", "card_not_found")
             /\ UNCHANGED <<credit_cards, card_seq>>
        ELSE IF TruthyText(DictGet(form_data, "billing_date"))
        THEN /\ credit_cards' = full.cards
             /\ user_sessions' = clear_form(sessions, u)
             /\ last' = Event("text", u, The(card_id), text, BoolText(full.ret),
                              IF full.ret THEN "billing_updated" ELSE "billing_failed")
             /\ UNCHANGED card_seq
        ELSE /\ credit_cards' = only.cards
             /\ user_sessions' = clear_form(sessions, u)
             /\ last' = Event("text", u, The(card_id), text, BoolText(only.ret),
                              IF only.ret THEN "amount_updated" ELSE "amount_failed")
             /\ UNCHANGED card_seq

text_bill_amount(u, text, today) ==
    LET cleaned_amount == clean_amount(text)
        s1 == update_form_field(user_sessions, u, "bill_amount", cleaned_amount).sessions
        s2 == set_state(s1, u, IDLE)
    IN  handle_billing_form_done(u, text, s2, today)

\* _handle_grace_days_form_done, on the sessions the text handler leaves.
handle_grace_days_form_done(u, text, sessions) ==
    LET got == get_form_data(sessions, u)
        form_data == The(got)
        card_id == DictGet(form_data, "card_id")
        upd == update_payment_grace_days(credit_cards, u, The(card_id),
                                         The(python_int(form_data["grace_days"])))
    IN  IF got = None \/ DOMAIN form_data = {}
           \/ ~TruthyText(DictGet(form_data, "grace_days"))
        THEN /\ user_sessions' = sessions
             /\ last' = Event("text", u, 0, text, "None", "grace_required")
             /\ UNCHANGED <<credit_cards, card_seq>>
        ELSE IF ~TruthyInt(card_id)
        THEN /\ user_sessions' = sessions
             /\ last' = Event("text", u, 0, text, "None", "card_not_found")
             /\ UNCHANGED <<credit_cards, card_seq>>
        ELSE /\ credit_cards' = upd.cards
             /\ user_sessions' = clear_form(sessions, u)
             /\ last' = Event("text", u, The(card_id), text, BoolText(upd.ret),
                              IF upd.ret THEN "grace_updated" ELSE "grace_failed")
             /\ UNCHANGED card_seq

text_grace_days(u, text) ==
    LET s1 == update_form_field(user_sessions, u, "grace_days", text).sessions
        s2 == set_state(s1, u, IDLE)
    IN  handle_grace_days_form_done(u, text, s2)

\* The validator handle_text_message applies in each state.
Accepts(state, text) ==
    CASE state = WAITING_BANK_NAME -> validate_bank_name(text)
      [] state = WAITING_CARD_NUMBER -> validate_card_number(text)
      [] state = WAITING_EXPIRY_DATE -> validate_expiry_date(text)
      [] state = WAITING_CVV -> validate_cvv(text)
      [] state = WAITING_BILLING_DATE -> validate_billing_date(text)
      [] state = WAITING_BILL_AMOUNT -> validate_bill_amount(text)
      [] state = WAITING_GRACE_DAYS -> validate_grace_days(text)
      [] OTHER -> FALSE

\* handle_text_message that takes a text in state idle for a bank name.
handle_text_message_idle_as_bank_name(u, text, today) ==
    LET current_state == get_current_state(user_sessions, u)
    IN  IF current_state = IDLE
        THEN IF validate_bank_name(text) THEN text_plain_field(u, text, "bank_name")
             ELSE text_rejected(u, text)
        ELSE IF ~Accepts(current_state, text) THEN text_rejected(u, text)
        ELSE CASE current_state = WAITING_BANK_NAME -> text_plain_field(u, text, "bank_name")
               [] current_state = WAITING_CARD_NUMBER -> text_card_number(u, text)
               [] current_state = WAITING_EXPIRY_DATE -> text_plain_field(u, text, "expiry_date")
               [] current_state = WAITING_CVV -> text_plain_field(u, text, "cvv")
               [] current_state = WAITING_BILLING_DATE -> text_billing_date(u, text)
               [] current_state = WAITING_BILL_AMOUNT -> text_bill_amount(u, text, today)
               [] current_state = WAITING_GRACE_DAYS -> text_grace_days(u, text)

handle_text_message(u, text, today) ==
    LET current_state == get_current_state(user_sessions, u)
    IN  IF current_state = IDLE
        THEN \* not in form mode, ignore
             /\ last' = Event("text", u, 0, text, "None", "ignored")
             /\ UNCHANGED <<credit_cards, card_seq, user_sessions>>
        ELSE IF ~Accepts(current_state, text) THEN text_rejected(u, text)
        ELSE CASE current_state = WAITING_BANK_NAME -> text_plain_field(u, text, "bank_name")
               [] current_state = WAITING_CARD_NUMBER -> text_card_number(u, text)
               [] current_state = WAITING_EXPIRY_DATE -> text_plain_field(u, text, "expiry_date")
               [] current_state = WAITING_CVV -> text_plain_field(u, text, "cvv")
               [] current_state = WAITING_BILLING_DATE -> text_billing_date(u, text)
               [] current_state = WAITING_BILL_AMOUNT -> text_bill_amount(u, text, today)
               [] current_state = WAITING_GRACE_DAYS -> text_grace_days(u, text)

\* handle_form_done with clear_form after the call, whatever it returned.
handle_form_done_clears(u, fault) ==
    LET form_data == The(get_form_data(user_sessions, u))
        res == add_credit_card(credit_cards, card_seq, u, form_data["bank_name"],
                               form_data["card_number"], form_data["expiry_date"],
                               DictGet(form_data, "cvv"),
                               DictGet(form_data, "full_card_number"), fault)
    IN  IF u \notin form_shown THEN FALSE
        ELSE IF ~is_form_complete(user_sessions, u)
        THEN /\ last' = [Event("form_done", u, 0, <<>>, "None", "not_complete")
                            EXCEPT !.before = get_current_state(user_sessions, u)]
             /\ UNCHANGED <<credit_cards, card_seq, user_sessions>>
        ELSE /\ credit_cards' = res.cards
             /\ card_seq' = res.seq
             /\ user_sessions' = clear_form(user_sessions, u)
             /\ last' = [Event("form_done", u, IF res.ret THEN res.seq ELSE 0, <<>>,
                               BoolText(res.ret),
                               IF res.ret THEN "added" ELSE "add_failed")
                            EXCEPT !.raised = res.raised,
                                   !.before = get_current_state(user_sessions, u)]

\* handle_form_done answering "not complete" unless the session is idle.
handle_form_done_idle_only(u, fault) ==
    LET form_data == The(get_form_data(user_sessions, u))
        res == add_credit_card(credit_cards, card_seq, u, form_data["bank_name"],
                               form_data["card_number"], form_data["expiry_date"],
                               DictGet(form_data, "cvv"),
                               DictGet(form_data, "full_card_number"), fault)
    IN  IF u \notin form_shown THEN FALSE
        ELSE IF ~is_form_complete(user_sessions, u)
                \/ get_current_state(user_sessions, u) # IDLE
        THEN /\ last' = [Event("form_done", u, 0, <<>>, "None", "not_complete")
                            EXCEPT !.before = get_current_state(user_sessions, u)]
             /\ UNCHANGED <<credit_cards, card_seq, user_sessions>>
        ELSE /\ credit_cards' = res.cards
             /\ card_seq' = res.seq
             /\ user_sessions' = IF res.ret THEN clear_form(user_sessions, u)
                                 ELSE user_sessions
             /\ last' = [Event("form_done", u, IF res.ret THEN res.seq ELSE 0, <<>>,
                               BoolText(res.ret),
                               IF res.ret THEN "added" ELSE "add_failed")
                            EXCEPT !.raised = res.raised,
                                   !.before = get_current_state(user_sessions, u)]

handle_form_done(u, fault) ==
    LET form_data == The(get_form_data(user_sessions, u))
        res == add_credit_card(credit_cards, card_seq, u, form_data["bank_name"],
                               form_data["card_number"], form_data["expiry_date"],
                               DictGet(form_data, "cvv"),
                               DictGet(form_data, "full_card_number"), fault)
    IN  IF u \notin form_shown THEN FALSE
        ELSE IF ~is_form_complete(user_sessions, u)
        THEN /\ last' = [Event("form_done", u, 0, <<>>, "None", "not_complete")
                            EXCEPT !.before = get_current_state(user_sessions, u)]
             /\ UNCHANGED <<credit_cards, card_seq, user_sessions>>
        ELSE /\ credit_cards' = res.cards
             /\ card_seq' = res.seq
             /\ user_sessions' = IF res.ret THEN clear_form(user_sessions, u)
                                 ELSE user_sessions
             /\ last' = [Event("form_done", u, IF res.ret THEN res.seq ELSE 0, <<>>,
                               BoolText(res.ret),
                               IF res.ret THEN "added" ELSE "add_failed")
                            EXCEPT !.raised = res.raised,
                                   !.before = get_current_state(user_sessions, u)]

\* handle_form_cancel returning the session to idle instead of clearing it.
handle_form_cancel_to_idle(u) ==
    /\ u \in form_shown
    /\ user_sessions' = set_state(user_sessions, u, IDLE)
    /\ last' = [Event("form_cancel", u, 0, <<>>, "None", "cancelled")
                   EXCEPT !.before = get_current_state(user_sessions, u)]
    /\ UNCHANGED <<credit_cards, card_seq>>

handle_form_cancel(u) ==
    /\ u \in form_shown
    /\ user_sessions' = clear_form(user_sessions, u)
    /\ last' = [Event("form_cancel", u, 0, <<>>, "None", "cancelled")
                   EXCEPT !.before = get_current_state(user_sessions, u)]
    /\ UNCHANGED <<credit_cards, card_seq>>

handle_confirm_delete_callback(u, card_id) ==
    LET card == get_card_by_id(credit_cards, u, card_id)
        res == delete_card(credit_cards, u, card_id)
    IN  IF card = None
        THEN /\ last' = Event("confirm_delete", u, card_id, <<>>, "None", "card_not_found")
             /\ UNCHANGED <<credit_cards, card_seq, user_sessions>>
        ELSE /\ credit_cards' = res.cards
             /\ last' = Event("confirm_delete", u, card_id, <<>>, BoolText(res.ret),
                              IF res.ret THEN "deleted" ELSE "delete_failed")
             /\ UNCHANGED <<card_seq, user_sessions>>

handle_mark_paid_callback(u, card_id, today) ==
    LET card == get_card_by_id(credit_cards, u, card_id)
        res == mark_bill_paid(credit_cards, u, card_id, today)
    IN  IF card = None
        THEN /\ last' = Event("mark_paid", u, card_id, <<>>, "None", "card_not_found")
             /\ UNCHANGED <<credit_cards, card_seq, user_sessions>>
        ELSE /\ credit_cards' = res.cards
             /\ last' = Event("mark_paid", u, card_id, <<>>, BoolText(res.ret),
                              IF res.ret THEN "marked_paid" ELSE "mark_paid_failed")
             /\ UNCHANGED <<card_seq, user_sessions>>

\* _handle_set_billing_callback, _handle_update_amount_callback and
\* _handle_set_grace_days_callback differ in the state they start in.
\* start_card_form without the look-up of the card.
start_card_form_unchecked(u, card_id, op, state) ==
    /\ user_sessions' = save_user_session(user_sessions, u, state,
                                          [k \in {"card_id"} |-> card_id])
    /\ last' = Event(op, u, card_id, <<>>, "None", "enter_value")
    /\ UNCHANGED <<credit_cards, card_seq>>

start_card_form(u, card_id, op, state) ==
    LET card == get_card_by_id(credit_cards, u, card_id)
    IN  IF card = None
        THEN /\ last' = Event(op, u, card_id, <<>>, "None", "card_not_found")
             /\ UNCHANGED <<credit_cards, card_seq, user_sessions>>
        ELSE /\ user_sessions' = save_user_session(user_sessions, u, state,
                                                   [k \in {"card_id"} |-> card_id])
             /\ last' = Event(op, u, card_id, <<>>, "None", "enter_value")
             /\ UNCHANGED <<credit_cards, card_seq>>

handle_set_billing_callback(u, card_id) ==
    start_card_form(u, card_id, "set_billing", WAITING_BILLING_DATE)

handle_update_amount_callback(u, card_id) ==
    start_card_form(u, card_id, "update_amount", WAITING_BILL_AMOUNT)

handle_set_grace_days_callback(u, card_id) ==
    start_card_form(u, card_id, "set_grace_days", WAITING_GRACE_DAYS)

\* ------------------------------------------- the store, called directly
\* The methods of DatabaseManager as any caller may call them (the tests
\* do), with arguments of the caller's choice.
call_add_credit_card(u, bank_name, card_number, expiry_date, cvv, full_card_number, fault) ==
    LET res == add_credit_card(credit_cards, card_seq, u, bank_name, card_number,
                               expiry_date, cvv, full_card_number, fault)
    IN  /\ credit_cards' = res.cards
        /\ card_seq' = res.seq
        /\ last' = [Event("add_credit_card", u, IF res.ret THEN res.seq ELSE 0,
                          card_number, BoolText(res.ret), "none")
                       EXCEPT !.raised = res.raised]
        /\ UNCHANGED user_sessions

call_delete_card(u, card_id) ==
    LET res == delete_card(credit_cards, u, card_id)
    IN  /\ credit_cards' = res.cards
        /\ last' = Event("delete_card", u, card_id, <<>>, BoolText(res.ret), "none")
        /\ UNCHANGED <<card_seq, user_sessions>>

call_update_billing_info(u, card_id, billing_date, bill_amount, grace_days, today) ==
    LET res == update_billing_info(credit_cards, u, card_id, billing_date, bill_amount,
                                   grace_days, today)
    IN  /\ credit_cards' = res.cards
        /\ last' = Event("update_billing_info", u, card_id, <<>>, BoolText(res.ret), "none")
        /\ UNCHANGED <<card_seq, user_sessions>>

call_mark_bill_paid(u, card_id, today) ==
    LET res == mark_bill_paid(credit_cards, u, card_id, today)
    IN  /\ credit_cards' = res.cards
        /\ last' = Event("mark_bill_paid", u, card_id, <<>>, BoolText(res.ret), "none")
        /\ UNCHANGED <<card_seq, user_sessions>>

call_update_bill_amount(u, card_id, new_amount) ==
    LET res == update_bill_amount(credit_cards, u, card_id, new_amount)
    IN  /\ credit_cards' = res.cards
        /\ last' = Event("update_bill_amount", u, card_id, <<>>, BoolText(res.ret), "none")
        /\ UNCHANGED <<card_seq, user_sessions>>

call_update_payment_grace_days(u, card_id, grace_days) ==
    LET res == update_payment_grace_days(credit_cards, u, card_id, grace_days)
    IN  /\ credit_cards' = res.cards
        /\ last' = Event("update_payment_grace_days", u, card_id, <<>>,
                         BoolText(res.ret), "none")
        /\ UNCHANGED <<card_seq, user_sessions>>

\* ------------------------------------------------------------------ inputs
\* The texts a user types.  In each state the user types one of a few texts
\* chosen so that the state's validator accepts some and rejects others.
T_HDFC == <<"H", "D", "F", "C">>
T_A == <<"A">>
T_1234 == <<"1", "2", "3", "4">>
T_full == <<"1", "2", "3", "4", " ", "5", "6", "7", "8", " ",
            "9", "0", "1", "2", "-", "3", "4", "5", "6">>
T_12a4 == <<"1", "2", "a", "4">>
T_12345 == <<"1", "2", "3", "4", "5">>
T_expiry == <<"1", "2", "/", "2", "0", "2", "5">>
T_expiry13 == <<"1", "3", "/", "2", "0", "2", "5">>
T_123 == <<"1", "2", "3">>
T_12 == <<"1", "2">>
T_15 == <<"1", "5">>
T_31 == <<"3", "1">>
T_0 == <<"0">>
T_amount == <<"$", "1", ",", "5", "0", "0", ".", "5", "0">>
T_30 == <<"3", "0">>
T_61 == <<"6", "1">>

TextsIn(state) ==
    CASE state = WAITING_BANK_NAME -> {T_HDFC, T_A}
      [] state = WAITING_CARD_NUMBER -> {T_1234, T_full, T_12a4, T_12345}
      [] state = WAITING_EXPIRY_DATE -> {T_expiry, T_expiry13}
      [] state = WAITING_CVV -> {T_123, T_12}
      [] state = WAITING_BILLING_DATE -> {T_15, T_31, T_0}
      [] state = WAITING_BILL_AMOUNT -> {T_amount, T_0}
      [] state = WAITING_GRACE_DAYS -> {T_30, T_61}
      [] OTHER -> {T_HDFC}

\* The dates "now" is drawn from.
Date(y, m, d) == [y |-> y, m |-> m, d |-> d]
Todays == {Date(2025, 1, 20), Date(2025, 2, 10)}

\* The arguments the store's methods are called with directly.
T_3456 == <<"3", "4", "5", "6">>
CardNumbers == {T_1234, T_3456}
BillingDays == {15, 31}
Amounts == {15000}
GraceDays == {30}

\* ----------------------------------------------------------- specification
\* Spec: DatabaseManager and the handlers, driven by NumUsers owners for
\* MaxEvents events.
Step == steps < MaxEvents /\ steps' = steps + 1

\* Only /add_card sends a message with the form's buttons.
NoForm == UNCHANGED form_shown

\* An event is handled to its end, its calls to the store included, before
\* the next one: no call is in progress between two events.  The events of
\* a run fall within one second of the store's clock.
Sequential == UNCHANGED <<conns, events, now>>

AddCardCommand == \E u \in Users : Step /\ Sequential /\ add_card_command(u)
FormFieldCallback ==
    \E u \in Users, f \in FormFields :
        Step /\ Sequential /\ NoForm /\ handle_form_field_callback(u, f)
TextMessage ==
    \E u \in Users, today \in Todays :
        \E text \in TextsIn(get_current_state(user_sessions, u)) :
            Step /\ Sequential /\ NoForm /\ handle_text_message(u, text, today)
FormDone ==
    \E u \in Users, fault \in BOOLEAN :
        Step /\ Sequential /\ NoForm /\ handle_form_done(u, fault) /\ card_seq' <= MaxCards
FormCancel == \E u \in Users : Step /\ Sequential /\ NoForm /\ handle_form_cancel(u)
ConfirmDeleteCallback ==
    \E u \in Users, id \in CardIds :
        Step /\ Sequential /\ NoForm /\ handle_confirm_delete_callback(u, id)
MarkPaidCallback ==
    \E u \in Users, id \in CardIds, today \in Todays :
        Step /\ Sequential /\ NoForm /\ handle_mark_paid_callback(u, id, today)
SetBillingCallback ==
    \E u \in Users, id \in CardIds :
        Step /\ Sequential /\ NoForm /\ handle_set_billing_callback(u, id)
UpdateAmountCallback ==
    \E u \in Users, id \in CardIds :
        Step /\ Sequential /\ NoForm /\ handle_update_amount_callback(u, id)
SetGraceDaysCallback ==
    \E u \in Users, id \in CardIds :
        Step /\ Sequential /\ NoForm /\ handle_set_grace_days_callback(u, id)
CallAddCreditCard ==
    \E u \in Users, n \in CardNumbers, fault \in BOOLEAN :
        /\ Step
        /\ Sequential
        /\ NoForm
        /\ call_add_credit_card(u, T_HDFC, n, T_expiry, None, None, fault)
        /\ card_seq' <= MaxCards
CallDeleteCard ==
    \E u \in Users, id \in CardIds :
        Step /\ Sequential /\ NoForm /\ call_delete_card(u, id)
CallUpdateBillingInfo ==
    \E u \in Users, id \in CardIds, day \in BillingDays, a \in Amounts, today \in Todays :
        Step /\ Sequential /\ NoForm /\ call_update_billing_info(u, id, day, a, 21, today)
CallMarkBillPaid ==
    \E u \in Users, id \in CardIds, today \in Todays :
        Step /\ Sequential /\ NoForm /\ call_mark_bill_paid(u, id, today)
CallUpdateBillAmount ==
    \E u \in Users, id \in CardIds, a \in Amounts :
        Step /\ Sequential /\ NoForm /\ call_update_bill_amount(u, id, a)
CallUpdatePaymentGraceDays ==
    \E u \in Users, id \in CardIds, g \in GraceDays :
        Step /\ Sequential /\ NoForm /\ call_update_payment_grace_days(u, id, g)

Next ==
    \/ AddCardCommand
    \/ FormFieldCallback
    \/ TextMessage
    \/ FormDone
    \/ FormCancel
    \/ ConfirmDeleteCallback
    \/ MarkPaidCallback
    \/ SetBillingCallback
    \/ UpdateAmountCallback
    \/ SetGraceDaysCallback
    \/ CallAddCreditCard
    \/ CallDeleteCard
    \/ CallUpdateBillingInfo
    \/ CallMarkBillPaid
    \/ CallUpdateBillAmount
    \/ CallUpdatePaymentGraceDays

Spec == Init /\ [][Next]_vars

\* SpecWizard: the add-card wizard and the delete confirmation, driven by one
\* owner for any number of events.
WizardUsers == {1}

WizardAddCard == \E u \in WizardUsers : add_card_command(u) /\ UNCHANGED <<steps, conns, events, now>>
WizardFormField ==
    \E u \in WizardUsers, f \in FormFields :
        handle_form_field_callback(u, f) /\ UNCHANGED <<steps, form_shown, conns, events, now>>
WizardText ==
    \E u \in WizardUsers, today \in Todays :
        \E text \in TextsIn(get_current_state(user_sessions, u)) :
            handle_text_message(u, text, today) /\ UNCHANGED <<steps, form_shown, conns, events, now>>
WizardDone ==
    \E u \in WizardUsers, fault \in BOOLEAN :
        /\ handle_form_done(u, fault)
        /\ card_seq' <= MaxCards
        /\ UNCHANGED <<steps, form_shown, conns, events, now>>
WizardCancel ==
    \E u \in WizardUsers :
        handle_form_cancel(u) /\ UNCHANGED <<steps, form_shown, conns, events, now>>
WizardConfirmDelete ==
    \E u \in WizardUsers, id \in CardIds :
        handle_confirm_delete_callback(u, id) /\ UNCHANGED <<steps, form_shown, conns, events, now>>

NextWizard ==
    \/ WizardAddCard
    \/ WizardFormField
    \/ WizardText
    \/ WizardDone
    \/ WizardCancel
    \/ WizardConfirmDelete

SpecWizard == Init /\ [][NextWizard]_vars

\* SpecFlow: the wizard of /add_card and the billing, amount and grace-days
\* flows of a card, driven by one owner for any number of events, with Cancel
\* and without Done: the owner's card is stored by a direct call and deleted
\* with the delete button.
FlowFrame == UNCHANGED <<steps, form_shown, conns, events, now>>

FlowAddCard ==
    \E u \in WizardUsers : add_card_command(u) /\ UNCHANGED <<steps, conns, events, now>>
FlowFormField ==
    \E u \in WizardUsers, f \in FormFields : handle_form_field_callback(u, f) /\ FlowFrame
FlowText ==
    \E u \in WizardUsers, today \in Todays :
        \E text \in TextsIn(get_current_state(user_sessions, u)) :
            handle_text_message(u, text, today) /\ FlowFrame
FlowCancel == \E u \in WizardUsers : handle_form_cancel(u) /\ FlowFrame
FlowSetBilling ==
    \E u \in WizardUsers, id \in CardIds : handle_set_billing_callback(u, id) /\ FlowFrame
FlowUpdateAmount ==
    \E u \in WizardUsers, id \in CardIds : handle_update_amount_callback(u, id) /\ FlowFrame
FlowSetGraceDays ==
    \E u \in WizardUsers, id \in CardIds : handle_set_grace_days_callback(u, id) /\ FlowFrame
FlowCallAddCreditCard ==
    \E u \in WizardUsers :
        /\ call_add_credit_card(u, T_HDFC, T_1234, T_expiry, None, None, FALSE)
        /\ card_seq' <= MaxCards
        /\ FlowFrame

FlowConfirmDelete ==
    \E u \in WizardUsers, id \in CardIds : handle_confirm_delete_callback(u, id) /\ FlowFrame

NextFlow ==
    \/ FlowAddCard
    \/ FlowFormField
    \/ FlowText
    \/ FlowCancel
    \/ FlowSetBilling
    \/ FlowUpdateAmount
    \/ FlowSetGraceDays
    \/ FlowCallAddCreditCard
    \/ FlowConfirmDelete

SpecFlow == Init /\ [][NextFlow]_vars

\* SpecForm: the methods of FormManager called directly (the tests do), by
\* two owners, with states, fields and values of the caller's choice.
FormOwners == {1, 2}
FormFieldNames == {"bank_name", "billing_date"}
FormValues == {T_HDFC, <<>>}

call_start_add_card_form(u) ==
    /\ user_sessions' = start_add_card_form(user_sessions, u)
    /\ last' = Event("start_add_card_form", u, 0, <<>>, "None", "none")

call_set_state(u, state) ==
    /\ user_sessions' = set_state(user_sessions, u, state)
    /\ last' = Event("set_state", u, 0, <<>>, "None", state)

\* text holds the value and reply the name of the field.
call_update_form_field(u, field, value) ==
    LET res == update_form_field(user_sessions, u, field, value)
    IN  /\ user_sessions' = res.sessions
        /\ last' = Event("update_form_field", u, 0, value, BoolText(res.ret), field)

call_clear_form(u) ==
    /\ user_sessions' = clear_form(user_sessions, u)
    /\ last' = Event("clear_form", u, 0, <<>>, "None", "none")

FormFrame == UNCHANGED <<credit_cards, card_seq, form_shown, conns, events, now, steps>>

FormStart == \E u \in FormOwners : call_start_add_card_form(u) /\ FormFrame
FormSetState == \E u \in FormOwners, state \in FormState : call_set_state(u, state) /\ FormFrame
FormUpdateField ==
    \E u \in FormOwners, field \in FormFieldNames, value \in FormValues :
        call_update_form_field(u, field, value) /\ FormFrame
FormClear == \E u \in FormOwners : call_clear_form(u) /\ FormFrame

NextForm ==
    \/ FormStart
    \/ FormSetState
    \/ FormUpdateField
    \/ FormClear

SpecForm == Init /\ [][NextForm]_vars

\* ------------------------------------------------------ concurrent creates
\* SpecRace: add_credit_card called by several callers at once, each on a
\* connection of its own, as the steps SQLite orders: connect, execute the
\* INSERT, commit.  The INSERT takes the write lock of the database file,
\* which one connection holds at a time, until its commit; a connection that
\* finds the lock taken waits for it (the busy timeout of sqlite3.connect,
\* five seconds by default, is taken to be long enough).
InProgress(c) == c.pc \in {"connected", "executed"}

race_connect(p, user_id, card_number) ==
    /\ conns[p].pc = "idle"
    /\ conns' = [conns EXCEPT ![p] =
                     [pc |-> "connected", user_id |-> user_id,
                      card_number |-> card_number, ret |-> "None", raised |-> "none",
                      concurrent |-> {q \in Callers \ {p} : InProgress(conns[q])}]]
    /\ UNCHANGED <<credit_cards, card_seq>>

\* INSERT without the write lock: the constraint is checked against the rows
\* committed so far, whoever else is about to commit.
race_insert_unlocked(p) ==
    LET res == add_credit_card(credit_cards, card_seq, conns[p].user_id, T_HDFC,
                               conns[p].card_number, T_expiry, None, None, FALSE)
    IN  /\ conns[p].pc = "connected"
        /\ conns' = [conns EXCEPT ![p] =
                         IF res.ret THEN [@ EXCEPT !.pc = "executed"]
                         ELSE [@ EXCEPT !.pc = "returned", !.ret = BoolText(res.ret),
                                        !.raised = res.raised]]
        /\ UNCHANGED <<credit_cards, card_seq>>

\* cursor.execute(INSERT ...): UNIQUE(user_id, card_number) is checked here;
\* IntegrityError leaves the with block, which rolls back, and False is
\* returned.
race_insert(p) ==
    LET res == add_credit_card(credit_cards, card_seq, conns[p].user_id, T_HDFC,
                               conns[p].card_number, T_expiry, None, None, FALSE)
    IN  /\ conns[p].pc = "connected"
        /\ \A q \in Callers \ {p} : conns[q].pc # "executed"
        /\ conns' = [conns EXCEPT ![p] =
                         IF res.ret THEN [@ EXCEPT !.pc = "executed"]
                         ELSE [@ EXCEPT !.pc = "returned", !.ret = BoolText(res.ret),
                                        !.raised = res.raised]]
        /\ UNCHANGED <<credit_cards, card_seq>>

\* conn.commit() and return True: the row is in the table, the lock is free.
race_commit(p) ==
    /\ conns[p].pc = "executed"
    /\ credit_cards' = credit_cards \cup
           {NewCard(card_seq + 1, conns[p].user_id, T_HDFC, conns[p].card_number,
                    T_expiry, None, None)}
    /\ card_seq' = card_seq + 1
    /\ conns' = [conns EXCEPT ![p] = [@ EXCEPT !.pc = "returned", !.ret = "True"]]

RaceFrame == UNCHANGED <<user_sessions, form_shown, events, now, last, steps>>

RaceConnect ==
    \E p \in Callers, u \in Users, n \in CardNumbers : race_connect(p, u, n) /\ RaceFrame
RaceInsert == \E p \in Callers : race_insert(p) /\ RaceFrame
RaceCommit == \E p \in Callers : race_commit(p) /\ card_seq' <= MaxCards /\ RaceFrame

NextRace ==
    \/ RaceConnect
    \/ RaceInsert
    \/ RaceCommit

SpecRace == Init /\ [][NextRace]_vars

\* ------------------------------------------------- concurrent form events
\* SpecSession: the field buttons and the text messages of one owner's
\* add-card form, handled by several callers at once.  get_user_session and
\* save_user_session each open a connection and commit on their own, so every
\* call of either is a step, and the steps of two events interleave.  Each
\* caller handles one event; before the first of them arrives, /add_card and
\* field buttons are handled one at a time.
RaceFields == {"bank_name", "cvv"}

StateField(state) ==
    CASE state = WAITING_BANK_NAME -> "bank_name"
      [] state = WAITING_CARD_NUMBER -> "card_number"
      [] state = WAITING_EXPIRY_DATE -> "expiry_date"
      [] state = WAITING_CVV -> "cvv"

\* _handle_form_field_callback up to its call of set_state.
event_form_field(p, u, field) ==
    /\ events[p].pc = "idle"
    /\ u \in form_shown
    /\ events' = [events EXCEPT ![p] =
                      [NoEvent EXCEPT !.pc = "set_state_read", !.op = "form_field",
                                      !.user_id = u, !.field = field,
                                      !.target = FieldState(field)]]
    /\ UNCHANGED <<credit_cards, card_seq, user_sessions>>

\* handle_text_message up to its call of update_form_field: it reads the
\* state, and returns at once in state idle or on a text the validator of
\* the state rejects.
event_text(p, u, text) ==
    LET current_state == get_current_state(user_sessions, u)
        answered(reply) == [NoEvent EXCEPT !.pc = "returned", !.op = "text",
                                           !.user_id = u, !.value = text, !.reply = reply]
    IN  /\ events[p].pc = "idle"
        /\ events' = [events EXCEPT ![p] =
                          IF current_state = IDLE THEN answered("ignored")
                          ELSE IF ~Accepts(current_state, text) THEN answered("rejected")
                          ELSE [NoEvent EXCEPT !.pc = "update_read", !.op = "text",
                                               !.user_id = u,
                                               !.field = StateField(current_state),
                                               !.value = text, !.target = IDLE]]
        /\ UNCHANGED <<credit_cards, card_seq, user_sessions>>

\* update_form_field: form_data = self.get_form_data(user_id); on None it
\* returns False, and the handler goes on to set_state.
update_read(p) ==
    LET seen == get_user_session(user_sessions, events[p].user_id)
    IN  /\ events[p].pc = "update_read"
        /\ events' = [events EXCEPT ![p] =
                          [@ EXCEPT !.seen = seen,
                                    !.pc = IF get_form_data(seen, events[p].user_id) = None
                                           THEN "set_state_read" ELSE "update_state"]]
        /\ UNCHANGED <<credit_cards, card_seq, user_sessions>>

\* update_form_field: current_state = self.get_current_state(user_id)
update_state(p) ==
    /\ events[p].pc = "update_state"
    /\ events' = [events EXCEPT ![p] =
                      [@ EXCEPT !.state = get_current_state(user_sessions, events[p].user_id),
                                !.pc = "update_save"]]
    /\ UNCHANGED <<credit_cards, card_seq, user_sessions>>

\* set_state: form_data = self.get_form_data(user_id) or {}
set_state_read(p) ==
    /\ events[p].pc = "set_state_read"
    /\ events' = [events EXCEPT ![p] =
                      [@ EXCEPT !.seen = get_user_session(user_sessions, events[p].user_id),
                                !.pc = "set_state_save"]]
    /\ UNCHANGED <<credit_cards, card_seq, user_sessions>>

\* The row update_form_field (pc update_save) or set_state saves, given the
\* rows its get_form_data read.
RowToSave(e, rows) ==
    IF e.pc = "update_save"
    THEN [The(get_user_session(update_form_field(rows, e.user_id, e.field, e.value).sessions,
                               e.user_id))
             EXCEPT !.current_state = e.state]
    ELSE The(get_user_session(set_state(rows, e.user_id, e.target), e.user_id))

\* session_save that computes the row from the rows the table holds at the
\* time of the save.
session_save_rereads(p) ==
    LET e == events[p]
        row == RowToSave(e, user_sessions)
    IN  /\ e.pc \in {"update_save", "set_state_save"}
        /\ get_user_session(user_sessions, e.user_id) # None
        /\ user_sessions' = save_user_session(user_sessions, e.user_id,
                                              row.current_state, row.form_data)
        /\ events' = [events EXCEPT ![p] =
                          [@ EXCEPT !.replaced = get_user_session(user_sessions, e.user_id),
                                    !.wrote = {row},
                                    !.pc = IF e.pc = "update_save" THEN "set_state_read"
                                           ELSE "returned"]]
        /\ UNCHANGED <<credit_cards, card_seq>>

\* self.db_manager.save_user_session(user_id, state, json.dumps(form_data)):
\* the row goes in as the call computed it from what it read, whatever the
\* table holds by now.
session_save(p) ==
    LET e == events[p]
        row == RowToSave(e, e.seen)
    IN  /\ e.pc \in {"update_save", "set_state_save"}
        /\ user_sessions' = save_user_session(user_sessions, e.user_id,
                                              row.current_state, row.form_data)
        /\ events' = [events EXCEPT ![p] =
                          [@ EXCEPT !.replaced = get_user_session(user_sessions, e.user_id),
                                    !.wrote = {row},
                                    !.pc = IF e.pc = "update_save" THEN "set_state_read"
                                           ELSE "returned"]]
        /\ UNCHANGED <<credit_cards, card_seq>>

SessionFrame == UNCHANGED <<form_shown, conns, now, last, steps>>

\* No event is being handled: an event that arrives now and is handled to
\* its end before the next one arrives is a single step.
Quiet == \A p \in Callers : events[p].pc = "idle"

SessionAddCard ==
    \E u \in WizardUsers : Quiet /\ add_card_command(u) /\ UNCHANGED <<steps, conns, events, now>>
SessionFormFieldAlone ==
    \E u \in WizardUsers, f \in RaceFields :
        /\ Quiet
        /\ handle_form_field_callback(u, f)
        /\ UNCHANGED <<steps, form_shown, conns, events, now>>
SessionFormField ==
    \E p \in Callers, u \in WizardUsers, f \in RaceFields :
        event_form_field(p, u, f) /\ SessionFrame
SessionText ==
    \E p \in Callers, u \in WizardUsers :
        \E text \in TextsIn(get_current_state(user_sessions, u)) :
            event_text(p, u, text) /\ SessionFrame
SessionUpdateRead == \E p \in Callers : update_read(p) /\ SessionFrame
SessionUpdateState == \E p \in Callers : update_state(p) /\ SessionFrame
SessionSetStateRead == \E p \in Callers : set_state_read(p) /\ SessionFrame
SessionSave == \E p \in Callers : session_save(p) /\ SessionFrame

NextSession ==
    \/ SessionAddCard
    \/ SessionFormFieldAlone
    \/ SessionFormField
    \/ SessionText
    \/ SessionUpdateRead
    \/ SessionUpdateState
    \/ SessionSetStateRead
    \/ SessionSave

SpecSession == Init /\ [][NextSession]_vars

\* SpecBilling: the billing and amount flows of a card, with the text that
\* the amount state accepts handled call by call.  Each call of FormManager
\* and of DatabaseManager commits on a connection of its own, so the tables
\* hold what the calls made so far have left.  One owner's events are
\* handled one at a time.
amount_accept(p, u, text) ==
    /\ Quiet
    /\ get_current_state(user_sessions, u) = WAITING_BILL_AMOUNT
    /\ validate_bill_amount(text)
    /\ events' = [events EXCEPT ![p] =
                      [NoEvent EXCEPT !.pc = "amount_update", !.op = "text",
                                      !.user_id = u, !.field = "bill_amount",
                                      !.value = clean_amount(text), !.target = IDLE]]
    /\ UNCHANGED <<credit_cards, card_seq, user_sessions, last>>

\* self.form_manager.update_form_field(user.id, "bill_amount", cleaned_amount)
amount_update_form_field(p) ==
    LET e == events[p]
    IN  /\ e.pc = "amount_update"
        /\ user_sessions' = update_form_field(user_sessions, e.user_id, e.field, e.value).sessions
        /\ events' = [events EXCEPT ![p] = [@ EXCEPT !.pc = "amount_set_state"]]
        /\ UNCHANGED <<credit_cards, card_seq, last>>

\* self.form_manager.set_state(user.id, FormState.IDLE)
amount_set_state(p) ==
    LET e == events[p]
    IN  /\ e.pc = "amount_set_state"
        /\ user_sessions' = set_state(user_sessions, e.user_id, e.target)
        /\ events' = [events EXCEPT ![p] = [@ EXCEPT !.pc = "amount_done"]]
        /\ UNCHANGED <<credit_cards, card_seq, last>>

\* _handle_billing_form_done up to its clear_form: the two early returns,
\* or the update of the record and the reply.
amount_form_done(p, today) ==
    LET e == events[p]
        u == e.user_id
        got == get_form_data(user_sessions, u)
        form_data == The(got)
        card_id == DictGet(form_data, "card_id")
        full == update_billing_info(credit_cards, u, The(card_id),
                                    The(python_int(form_data["billing_date"])),
                                    The(python_float(form_data["bill_amount"])), 21, today)
        only == update_bill_amount(credit_cards, u, The(card_id),
                                   The(python_float(form_data["bill_amount"])))
        returned(reply) ==
            /\ events' = [events EXCEPT ![p] = NoEvent]
            /\ last' = Event("text", u, 0, e.value, "None", reply)
            /\ UNCHANGED <<credit_cards, card_seq, user_sessions>>
        updated(res, ok, failed) ==
            /\ credit_cards' = res.cards
            /\ events' = [events EXCEPT ![p] =
                              [@ EXCEPT !.pc = "amount_clear",
                                        !.reply = IF res.ret THEN ok ELSE failed]]
            /\ UNCHANGED <<card_seq, user_sessions, last>>
    IN  /\ e.pc = "amount_done"
        /\ IF got = None \/ DOMAIN form_data = {}
              \/ ~TruthyText(DictGet(form_data, "bill_amount"))
           THEN returned("amount_required")
           ELSE IF ~TruthyInt(card_id) THEN returned("card_not_found")
           ELSE IF TruthyText(DictGet(form_data, "billing_date"))
           THEN updated(full, "billing_updated", "billing_failed")
           ELSE updated(only, "amount_updated", "amount_failed")

\* _handle_billing_form_done: self.form_manager.clear_form(user_id)
amount_clear_form(p) ==
    LET e == events[p]
    IN  /\ e.pc = "amount_clear"
        /\ user_sessions' = clear_form(user_sessions, e.user_id)
        /\ events' = [events EXCEPT ![p] = NoEvent]
        /\ last' = Event("text", e.user_id, 0, e.value, "None", e.reply)
        /\ UNCHANGED <<credit_cards, card_seq>>

BillingFrame == UNCHANGED <<form_shown, conns, now, steps>>
BillingAlone == Quiet /\ UNCHANGED <<steps, form_shown, conns, events, now>>

BillingCallAddCreditCard ==
    \E u \in WizardUsers, n \in CardNumbers :
        /\ call_add_credit_card(u, T_HDFC, n, T_expiry, None, None, FALSE)
        /\ card_seq' <= MaxCards
        /\ BillingAlone
BillingSetBilling ==
    \E u \in WizardUsers, id \in CardIds : handle_set_billing_callback(u, id) /\ BillingAlone
BillingUpdateAmount ==
    \E u \in WizardUsers, id \in CardIds : handle_update_amount_callback(u, id) /\ BillingAlone
BillingTextDay ==
    \E u \in WizardUsers, today \in Todays :
        /\ get_current_state(user_sessions, u) = WAITING_BILLING_DATE
        /\ \E text \in TextsIn(WAITING_BILLING_DATE) : handle_text_message(u, text, today)
        /\ BillingAlone
BillingAmountAccept ==
    \E p \in Callers, u \in WizardUsers, text \in TextsIn(WAITING_BILL_AMOUNT) :
        amount_accept(p, u, text) /\ BillingFrame
BillingAmountUpdate == \E p \in Callers : amount_update_form_field(p) /\ BillingFrame
BillingAmountSetState == \E p \in Callers : amount_set_state(p) /\ BillingFrame
BillingAmountDone ==
    \E p \in Callers, today \in Todays : amount_form_done(p, today) /\ BillingFrame
BillingAmountClear == \E p \in Callers : amount_clear_form(p) /\ BillingFrame

NextBilling ==
    \/ BillingCallAddCreditCard
    \/ BillingSetBilling
    \/ BillingUpdateAmount
    \/ BillingTextDay
    \/ BillingAmountAccept
    \/ BillingAmountUpdate
    \/ BillingAmountSetState
    \/ BillingAmountDone
    \/ BillingAmountClear

SpecBilling == Init /\ [][NextBilling]_vars

\* SpecPaid: the billing cycle of one owner's record: update_billing_info,
\* mark_bill_paid (called directly and through the paid button),
\* update_bill_amount and update_payment_grace_days, on days of December and
\* January.  steps counts the mark-paid events.
PaidTodays == {Date(2024, 12, 10), Date(2025, 1, 20)}

PaidFrame == UNCHANGED <<form_shown, conns, events, now>>
PaidOther == UNCHANGED steps /\ PaidFrame

PaidCallAddCreditCard ==
    \E u \in WizardUsers :
        /\ call_add_credit_card(u, T_HDFC, T_1234, T_expiry, None, None, FALSE)
        /\ card_seq' <= MaxCards
        /\ PaidOther
PaidCallUpdateBillingInfo ==
    \E u \in WizardUsers, id \in CardIds, day \in BillingDays, a \in Amounts, today \in PaidTodays :
        call_update_billing_info(u, id, day, a, 21, today) /\ PaidOther
PaidCallMarkBillPaid ==
    \E u \in WizardUsers, id \in CardIds, today \in PaidTodays :
        Step /\ call_mark_bill_paid(u, id, today) /\ PaidFrame
PaidMarkPaidCallback ==
    \E u \in WizardUsers, id \in CardIds, today \in PaidTodays :
        Step /\ handle_mark_paid_callback(u, id, today) /\ PaidFrame
PaidCallUpdateBillAmount ==
    \E u \in WizardUsers, id \in CardIds, a \in Amounts :
        call_update_bill_amount(u, id, a) /\ PaidOther
PaidCallUpdatePaymentGraceDays ==
    \E u \in WizardUsers, id \in CardIds, g \in GraceDays :
        call_update_payment_grace_days(u, id, g) /\ PaidOther

NextPaid ==
    \/ PaidCallAddCreditCard
    \/ PaidCallUpdateBillingInfo
    \/ PaidCallMarkBillPaid
    \/ PaidMarkPaidCallback
    \/ PaidCallUpdateBillAmount
    \/ PaidCallUpdatePaymentGraceDays

SpecPaid == Init /\ [][NextPaid]_vars

\* SpecIdle: texts of any kind sent by one owner between the events of the
\* add-card form (bank name and cvv only) and of the amount flow of a card.
IdleTexts == {T_HDFC, T_A, T_1234, T_full, T_expiry, T_123, T_15, T_amount, T_30}

IdleAddCard ==
    \E u \in WizardUsers : add_card_command(u) /\ UNCHANGED <<steps, conns, events, now>>
IdleFormField ==
    \E u \in WizardUsers, f \in RaceFields : handle_form_field_callback(u, f) /\ FlowFrame
IdleText ==
    \E u \in WizardUsers, text \in IdleTexts, today \in Todays :
        handle_text_message(u, text, today) /\ FlowFrame
IdleCancel == \E u \in WizardUsers : handle_form_cancel(u) /\ FlowFrame
IdleUpdateAmount ==
    \E u \in WizardUsers, id \in CardIds : handle_update_amount_callback(u, id) /\ FlowFrame
IdleCallAddCreditCard ==
    \E u \in WizardUsers :
        /\ call_add_credit_card(u, T_HDFC, T_1234, T_expiry, None, None, FALSE)
        /\ card_seq' <= MaxCards
        /\ FlowFrame

NextIdle ==
    \/ IdleAddCard
    \/ IdleFormField
    \/ IdleText
    \/ IdleCancel
    \/ IdleUpdateAmount
    \/ IdleCallAddCreditCard

SpecIdle == Init /\ [][NextIdle]_vars

\* ------------------------------------------------- the queries, called directly
\* SpecList: records are created through add_credit_card while the store's
\* clock runs, and get_user_cards and get_cards_by_bank_or_number are called
\* on the table.
\* Number of seconds the clock advances.
MaxTicks == 1

T_SBI == <<"S", "B", "I">>
ListBanks == {T_HDFC, T_SBI}
ListTerms ==
    {<<>>, <<"H", "D">>, <<"h", "d", "f", "c">>, <<"3", "4">>, <<"%">>, <<"_">>, <<"b">>,
     T_1234, T_HDFC}

call_get_user_cards(u, rows) ==
    /\ rows \in order_by_created_at_desc(get_user_cards(credit_cards, u))
    /\ last' = [Event("get_user_cards", u, 0, <<>>, "None", "none") EXCEPT !.rows = rows]
    /\ UNCHANGED <<credit_cards, card_seq, user_sessions>>

call_get_cards_by_bank_or_number(u, search_term, rows) ==
    /\ rows \in order_by_created_at_desc(
                    get_cards_by_bank_or_number(credit_cards, u, search_term))
    /\ last' = [Event("get_cards_by_bank_or_number", u, 0, search_term, "None", "none")
                   EXCEPT !.rows = rows]
    /\ UNCHANGED <<credit_cards, card_seq, user_sessions>>

ListFrame == UNCHANGED <<form_shown, conns, events, now, steps>>

Tick ==
    /\ now < MaxTicks
    /\ now' = now + 1
    /\ UNCHANGED <<credit_cards, card_seq, user_sessions, form_shown, conns, events, last, steps>>
ListAddCreditCard ==
    \E u \in Users, bank \in ListBanks, n \in CardNumbers :
        /\ call_add_credit_card(u, bank, n, T_expiry, None, None, FALSE)
        /\ card_seq' <= MaxCards
        /\ ListFrame
ListGetUserCards ==
    \E u \in Users :
        \E rows \in order_by_created_at_desc(get_user_cards(credit_cards, u)) :
            call_get_user_cards(u, rows) /\ ListFrame
ListSearch ==
    \E u \in Users, term \in ListTerms :
        \E rows \in order_by_created_at_desc(
                        get_cards_by_bank_or_number(credit_cards, u, term)) :
            call_get_cards_by_bank_or_number(u, term, rows) /\ ListFrame

NextList ==
    \/ Tick
    \/ ListAddCreditCard
    \/ ListGetUserCards
    \/ ListSearch

SpecList == Init /\ [][NextList]_vars

\* ------------------------------------------------ the validators, called directly
\* SpecValidators: validate_card_number, validate_expiry_date and validate_cvv
\* of FormManager, each applied to a text drawn from the sets below.
\* Longest run of digits tried as a card number.
MaxDigits == 21
\* Longest text tried as a cvv.
MaxCvvLen == 5

\* n digits: 1234567890 1234...
DigitRun(n) == [i \in 1..n |-> DigitChar(i % 10)]

\* The text s with the character c put in after its first k characters.
InsertAt(s, k, c) == SubSeq(s, 1, k) \o <<c>> \o SubSeq(s, k + 1, Len(s))

CardNumberTexts ==
    {DigitRun(n) : n \in 0..MaxDigits}
        \cup {InsertAt(DigitRun(n), k, c) :
                  n \in 4..MaxDigits, k \in {0, 4}, c \in {" ", "-", "a", "."}}
        \cup {T_full}

\* What stands on either side of the separator of an expiry date.
ExpiryParts ==
    {<<>>, <<"0">>, <<"0", "0">>, <<"0", "1">>, <<"1">>, <<"6">>, <<"1", "2">>,
     <<"1", "3">>, <<"2", "0", "1", "9">>, <<"2", "0", "2", "0">>,
     <<"2", "0", "2", "5">>, <<"2", "0", "3", "0">>, <<"2", "0", "3", "1">>,
     <<" ", "1", "2">>, <<"+", "1", "2">>, <<"1", "_", "2">>, <<"0", "1", "2">>,
     <<"a", "b">>, <<"0", "2", "0", "2", "5">>}
ExpirySeparators ==
    {<<"/">>, <<"-">>, <<>>, <<"/", "/">>, <<" ", "/", " ">>}
ExpiryTexts == {a \o sep \o b : a \in ExpiryParts, sep \in ExpirySeparators, b \in ExpiryParts}

CvvChars == {"0", "1", "a", " "}
CvvTexts == UNION {[1..n -> CvvChars] : n \in 0..MaxCvvLen}

ValidatorTexts == CardNumberTexts \cup ExpiryTexts \cup CvvTexts

InitValidators ==
    /\ credit_cards = {}
    /\ card_seq = 0
    /\ user_sessions = {}
    /\ form_shown = {}
    /\ conns = [p \in Callers |-> NoCall]
    /\ events = [p \in Callers |-> NoEvent]
    /\ now = 0
    /\ last \in {Event("input", 0, 0, text, "None", "none") : text \in ValidatorTexts}
    /\ steps = 0

\* A validator touches neither table.
call_validator(name, ret) ==
    /\ last.op = "input"
    /\ last' = Event(name, 0, 0, last.text, BoolText(ret), "none")
    /\ UNCHANGED <<credit_cards, card_seq, user_sessions, form_shown, conns, events, now, steps>>

ValidateCardNumber == call_validator("validate_card_number", validate_card_number(last.text))
ValidateExpiryDate == call_validator("validate_expiry_date", validate_expiry_date(last.text))
ValidateCvv == call_validator("validate_cvv", validate_cvv(last.text))

NextValidators ==
    \/ ValidateCardNumber
    \/ ValidateExpiryDate
    \/ ValidateCvv

SpecValidators == InitValidators /\ [][NextValidators]_vars

\* -------------------------------------------------------------- properties
\* What the properties below speak of, read off the two tables.
RecordsOf(cards, u) == {c \in cards : c.user_id = u}

SessionOf(sessions, u) == {s \in sessions : s.user_id = u}

\* The value the scratch buffer of u holds under key k: empty when u has no
\* session or the buffer has no such key.
FieldOf(sessions, u, k) ==
    {s.form_data[k] : s \in {r \in SessionOf(sessions, u) : k \in DOMAIN r.form_data}}

ScratchKeys == BaseFields \cup {"card_id", "billing_date", "bill_amount", "grace_days"}

\* A text is there and is not the empty text.
Filled(o) == \E v \in o : v # <<>>

\* C1: at any time an owner has at most one record with a given card number,
\* and a create for a pair (owner, card number) that is already there returns
\* False and leaves the records as they were.
UniquePairs(cards) ==
    \A c1, c2 \in cards :
        (c1.user_id = c2.user_id /\ c1.card_number = c2.card_number) => c1 = c2

CreateAttempt(u, n) ==
    \/ last'.op = "add_credit_card" /\ last'.user = u /\ last'.text = n
    \/ /\ last'.op = "form_done" /\ last'.user = u /\ last'.ret # "None"
       /\ FieldOf(user_sessions, u, "card_number") = {n}

C1_UniquePairAndDuplicateCreate ==
    [][/\ UniquePairs(credit_cards')
       /\ \A c \in credit_cards :
              CreateAttempt(c.user_id, c.card_number)
                  => last'.ret = "False" /\ credit_cards' = credit_cards]_vars

\* A create has just failed on a pair that is in the table.
C1_Witness ==
    /\ last.op = "add_credit_card" /\ last.ret = "False"
    /\ \E c \in credit_cards : c.user_id = last.user /\ c.card_number = last.text

\* C2: a record of owner A is never returned to another owner B: not by
\* get_card_by_id(B, its id), not by get_user_cards(B), not by
\* get_cards_by_bank_or_number(B, term) for any term; and a record keeps its
\* owner for as long as it exists.
SearchTerms ==
    {<<>>, <<"H", "D">>, <<"h", "d", "f", "c">>, <<"3", "4">>, <<"%">>, <<"_">>,
     T_1234, T_HDFC}

Isolated(cards) ==
    \A c \in cards : \A b \in Users \ {c.user_id} :
        /\ get_card_by_id(cards, b, c.id) = None
        /\ c \notin get_user_cards(cards, b)
        /\ \A term \in SearchTerms : c \notin get_cards_by_bank_or_number(cards, b, term)

C2_Isolation ==
    /\ [](Isolated(credit_cards))
    /\ [][\A c \in credit_cards : \A d \in credit_cards' :
              c.id = d.id => c.user_id = d.user_id]_vars

\* Both owners hold a record, under the same bank and number, and the search
\* of each finds its own.
C2_Witness ==
    \E c, d \in credit_cards :
        /\ c.user_id = 1 /\ d.user_id = 2 /\ c.card_number = d.card_number
        /\ get_cards_by_bank_or_number(credit_cards, 1, <<"h", "d", "f", "c">>) = {c}
        /\ get_card_by_id(credit_cards, 2, d.id) = {d}

\* C3: the completeness gate of the scratch buffer, and what a done event did.
GateHolds(u) ==
    /\ Filled(FieldOf(user_sessions, u, "bank_name"))
    /\ Filled(FieldOf(user_sessions, u, "card_number"))
    /\ Filled(FieldOf(user_sessions, u, "expiry_date"))
    /\ (~Filled(FieldOf(user_sessions, u, "full_card_number"))
        \/ Filled(FieldOf(user_sessions, u, "cvv")))

Committed(u) ==
    \E c \in credit_cards' \ credit_cards :
        /\ c.user_id = u
        /\ credit_cards' = credit_cards \cup {c}
        /\ \A d \in credit_cards : d.id # c.id

NothingDone == credit_cards' = credit_cards /\ user_sessions' = user_sessions

DoneEvent(u) == last'.op = "form_done" /\ last'.user = u

\* C3 as stated: a done event commits a new record if and only if bank name,
\* card number and expiry date of the scratch buffer are non-empty and (the
\* full card number is empty or the cvv is non-empty); in every other case no
\* record is created and the session is unchanged.  (Read for a storage
\* that does not fail.)
C3_DoneCommitsIffComplete ==
    [][\A u \in Users :
           (DoneEvent(u) /\ last'.raised # "Exception")
               => /\ Committed(u) <=> GateHolds(u)
                  /\ ~Committed(u) => NothingDone]_vars

\* C3 amended: a done event commits a new record if and only if the gate
\* holds, the owner has no record yet with the card number of the scratch
\* buffer, and the storage does not fail; in every other case no record is
\* created and the session is unchanged.
C3_DoneCommitsIffCompleteAndNew ==
    [][\A u \in Users :
           DoneEvent(u) =>
               /\ Committed(u) <=>
                      /\ GateHolds(u)
                      /\ ~\E c \in RecordsOf(credit_cards, u) :
                              FieldOf(user_sessions, u, "card_number") = {c.card_number}
                      /\ last'.raised # "Exception"
               /\ ~Committed(u) => NothingDone]_vars

\* A done event has committed a record that carries a full card number, and
\* the session is gone.
C3_Witness ==
    /\ last.op = "form_done" /\ last.ret = "True"
    /\ \E c \in credit_cards : c.id = last.card_id /\ Filled(c.full_card_number)
    /\ SessionOf(user_sessions, last.user) = {}

\* C4: after a cancel event, or a done event that committed a record, the
\* session of the owner is absent and the state reads as idle, and the next
\* event leaves it so unless it starts a flow (/add_card, or the selection of
\* a billing, amount or grace-days entry for a card).
Cleared(e) == e.op = "form_cancel" \/ (e.op = "form_done" /\ e.ret = "True")

FlowStarts == {"add_card_command", "set_billing", "update_amount", "set_grace_days"}

AbsentAndIdle(sessions, u) ==
    get_user_session(sessions, u) = None /\ get_current_state(sessions, u) = IDLE

C4_SessionAbsentUntilNewFlow ==
    [][/\ Cleared(last') => AbsentAndIdle(user_sessions', last'.user)
       /\ (Cleared(last) /\ ~(last'.user = last.user /\ last'.op \in FlowStarts))
              => AbsentAndIdle(user_sessions', last.user)]_vars

\* The part of C4 that speaks of the state right after the event.
C4_SessionAbsentRightAfter ==
    [][Cleared(last') => AbsentAndIdle(user_sessions', last'.user)]_vars

\* C5: every record in the table is valid: a bank name of two characters or
\* more, a card number of exactly four digits, an expiry date with a month in
\* 1..12 and a year in 2020..2030, and a cvv whenever there is a full card
\* number.
ExpiryInRange(text) ==
    LET parts == Split(text, "/")
    IN  /\ Len(parts) = 2
        /\ \E m \in python_int(parts[1]) : 1 <= m /\ m <= 12
        /\ \E y \in python_int(parts[2]) : 2020 <= y /\ y <= 2030

C5_RecordsValid ==
    \A c \in credit_cards :
        /\ Len(c.bank_name) >= 2
        /\ Len(c.card_number) = 4 /\ \A i \in 1..4 : c.card_number[i] \in Digits
        /\ ExpiryInRange(c.expiry_date)
        /\ Filled(c.full_card_number) => Filled(c.cvv)

\* Two records are there, one with a full card number and a cvv, one without
\* a full card number.
C5_Witness ==
    \E c, d \in credit_cards :
        /\ Filled(c.full_card_number) /\ Filled(c.cvv)
        /\ ~Filled(d.full_card_number)

\* C6: a text that the validator of the awaiting state rejects changes
\* neither table: same state, same scratch buffer, same records.
Rejects(state, text) ==
    \/ state = WAITING_BANK_NAME /\ ~validate_bank_name(text)
    \/ state = WAITING_CARD_NUMBER /\ ~validate_card_number(text)
    \/ state = WAITING_EXPIRY_DATE /\ ~validate_expiry_date(text)
    \/ state = WAITING_CVV /\ ~validate_cvv(text)
    \/ state = WAITING_BILLING_DATE /\ ~validate_billing_date(text)
    \/ state = WAITING_BILL_AMOUNT /\ ~validate_bill_amount(text)
    \/ state = WAITING_GRACE_DAYS /\ ~validate_grace_days(text)

C6_RejectedTextChangesNothing ==
    [][(last'.op = "text"
        /\ Rejects(get_current_state(user_sessions, last'.user), last'.text))
           => /\ user_sessions' = user_sessions
              /\ credit_cards' = credit_cards
              /\ card_seq' = card_seq]_vars

\* An amount of 0 has just been rejected while a record and the session that
\* waits for its amount are there.
C6_Witness ==
    /\ last.op = "text" /\ last.reply = "rejected"
    /\ get_current_state(user_sessions, last.user) = WAITING_BILL_AMOUNT
    /\ credit_cards # {}

\* C7: in the states that wait for the bank name, the expiry date or the
\* cvv, an accepted text becomes the value of that field and of no other,
\* the state becomes idle, and the records are unchanged.
PlainField(state) ==
    CASE state = WAITING_BANK_NAME -> "bank_name"
      [] state = WAITING_EXPIRY_DATE -> "expiry_date"
      [] state = WAITING_CVV -> "cvv"

AcceptsPlain(state, text) ==
    \/ state = WAITING_BANK_NAME /\ validate_bank_name(text)
    \/ state = WAITING_EXPIRY_DATE /\ validate_expiry_date(text)
    \/ state = WAITING_CVV /\ validate_cvv(text)

C7_AcceptedTextSetsOneField ==
    [][\A u \in Users :
           LET state == get_current_state(user_sessions, u)
           IN  (last'.op = "text" /\ last'.user = u /\ AcceptsPlain(state, last'.text))
                   => /\ FieldOf(user_sessions', u, PlainField(state)) = {last'.text}
                      /\ \A k \in ScratchKeys \ {PlainField(state)} :
                             FieldOf(user_sessions', u, k) = FieldOf(user_sessions, u, k)
                      /\ SessionOf(user_sessions', u) # {}
                      /\ get_current_state(user_sessions', u) = IDLE
                      /\ credit_cards' = credit_cards
                      /\ card_seq' = card_seq]_vars

\* The cvv has just been entered into a buffer that keeps its bank name.
C7_Witness ==
    /\ last.op = "text" /\ last.text = T_123
    /\ FieldOf(user_sessions, last.user, "cvv") = {T_123}
    /\ FieldOf(user_sessions, last.user, "bank_name") = {T_HDFC}
    /\ get_current_state(user_sessions, last.user) = IDLE

\* C8: in the state that waits for the card number, a valid text is stored
\* without its spaces and hyphens: four digits become the card number and
\* the full card number is not written; 13 to 19 digits become the full card
\* number and the last four of them the card number; the state becomes idle.
StripSeparators(text) == SelectSeq(text, LAMBDA c : c \notin {" ", "-"})

C8_CardNumberBifurcation ==
    [][\A u \in Users :
           LET digits == StripSeparators(last'.text)
               n == Len(digits)
           IN  (/\ last'.op = "text" /\ last'.user = u
                /\ get_current_state(user_sessions, u) = WAITING_CARD_NUMBER
                /\ validate_card_number(last'.text))
                   => /\ n = 4 \/ (13 <= n /\ n <= 19)
                      /\ n = 4 =>
                             /\ FieldOf(user_sessions', u, "card_number") = {digits}
                             /\ FieldOf(user_sessions', u, "full_card_number")
                                    = FieldOf(user_sessions, u, "full_card_number")
                      /\ n # 4 =>
                             /\ FieldOf(user_sessions', u, "full_card_number") = {digits}
                             /\ FieldOf(user_sessions', u, "card_number")
                                    = {SubSeq(digits, n - 3, n)}
                      /\ get_current_state(user_sessions', u) = IDLE]_vars

\* A full number with spaces and a hyphen has just been entered.
C8_Witness ==
    /\ last.op = "text" /\ last.text = T_full
    /\ FieldOf(user_sessions, last.user, "card_number") = {T_3456}
    /\ Len(StripSeparators(T_full)) = 16
    /\ FieldOf(user_sessions, last.user, "full_card_number") = {StripSeparators(T_full)}
    /\ get_current_state(user_sessions, last.user) = IDLE

\* C9: delete_card(owner, id) returns True if and only if a record with that
\* id of that owner was there; it removes that record and no other, and when
\* there is none (no such id, or the record of another owner) it returns
\* False and the records are unchanged.
DeleteCall ==
    last'.op = "delete_card" \/ (last'.op = "confirm_delete" /\ last'.ret # "None")

C9_DeleteOwnedRecordOnly ==
    [][DeleteCall =>
           LET hit == {c \in credit_cards :
                           c.id = last'.card_id /\ c.user_id = last'.user}
           IN  /\ last'.ret = "True" <=> hit # {}
               /\ Cardinality(hit) <= 1
               /\ credit_cards' = credit_cards \ hit]_vars

\* A delete has just returned True and the record of another owner is left.
C9_Witness ==
    /\ last.op = "delete_card" /\ last.ret = "True"
    /\ \E c \in credit_cards : c.user_id # last.user
    /\ RecordsOf(credit_cards, last.user) = {}

\* C10: an event or a store call of owner A changes neither the records nor
\* the session of another owner B, and when it names the id of a record of B
\* it returns False (a handler answers "card not found").
CardOps ==
    {"set_billing", "mark_paid", "update_amount", "set_grace_days", "confirm_delete",
     "delete_card", "update_billing_info", "mark_bill_paid", "update_bill_amount",
     "update_payment_grace_days"}

C10_OtherOwnerUntouched ==
    [][\A b \in Users \ {last'.user} :
           /\ RecordsOf(credit_cards', b) = RecordsOf(credit_cards, b)
           /\ SessionOf(user_sessions', b) = SessionOf(user_sessions, b)
           /\ (last'.op \in CardOps /\ \E c \in RecordsOf(credit_cards, b) : c.id = last'.card_id)
                  => last'.ret = "False" \/ last'.reply = "card_not_found"]_vars

\* An update of the amount, addressed to the record of another owner who is
\* in the middle of a form, has just returned False.
C10_Witness ==
    /\ last.op = "update_bill_amount" /\ last.ret = "False"
    /\ \E c \in credit_cards :
           /\ c.id = last.card_id /\ c.user_id # last.user
           /\ SessionOf(user_sessions, c.user_id) # {}

\* C11: create has three outcomes a caller can tell apart: of two creates in
\* a row that ended differently (inserted, IntegrityError on the pair that
\* is already there, any other storage error), the values returned differ.
IsCreate(e) == e.op = "add_credit_card" \/ (e.op = "form_done" /\ e.ret # "None")

C11_CreateOutcomesDistinct ==
    [][(IsCreate(last) /\ IsCreate(last') /\ last.raised # last'.raised)
           => last.ret # last'.ret]_vars

\* C12: a done event on a complete scratch buffer whose card number the owner
\* already has changes nothing: the records and the counter are as before,
\* the session keeps its state and its scratch buffer, and the reply says
\* that the add failed.
C12_DuplicateDoneChangesNothing ==
    [][\A u \in Users :
           (/\ DoneEvent(u)
            /\ GateHolds(u)
            /\ \E c \in RecordsOf(credit_cards, u) :
                   FieldOf(user_sessions, u, "card_number") = {c.card_number})
               => /\ NothingDone
                  /\ card_seq' = card_seq
                  /\ last'.ret = "False" /\ last'.reply = "add_failed"]_vars

\* A done event has just hit the uniqueness constraint, and the session with
\* the number that is taken is still there.
C12_Witness ==
    /\ last.op = "form_done" /\ last.raised = "IntegrityError"
    /\ \E c \in RecordsOf(credit_cards, last.user) :
           FieldOf(user_sessions, last.user, "card_number") = {c.card_number}
    /\ Filled(FieldOf(user_sessions, last.user, "bank_name"))

\* C13, C14: what a mark-paid call did to the record it names.
MarkPaidCall ==
    last'.op = "mark_bill_paid" \/ (last'.op = "mark_paid" /\ last'.ret # "None")

NamedRecord == {c \in RecordsOf(credit_cards, last'.user) : c.id = last'.card_id}

\* The date one calendar month on, the day of the month kept as it is.
SameDayNextMonth(dt) ==
    IF dt.m = 12 THEN [y |-> dt.y + 1, m |-> 1, d |-> dt.d]
    ELSE [y |-> dt.y, m |-> dt.m + 1, d |-> dt.d]

\* The same, the day brought down to the last day of the month it lands in.
ClampedNextMonth(dt) ==
    LET t == SameDayNextMonth(dt)
        n == DaysInMonth(t.y, t.m)
    IN  [t EXCEPT !.d = IF dt.d > n THEN n ELSE dt.d]

PaidRecord(c, next) ==
    [c EXCEPT !.last_bill_date = c.next_bill_date,
              !.next_bill_date = Some(isoformat(next)),
              !.bill_status = "paid"]

\* C13: mark_paid on a record whose next_bill_date is D sets last_bill_date
\* to D, next_bill_date to D one calendar month on with the same day of the
\* month, bill_status to paid, and changes nothing else in the table.
C13_MarkPaidAdvancesOneMonth ==
    [][MarkPaidCall =>
           \A c \in NamedRecord : \A D \in c.next_bill_date :
               credit_cards' = (credit_cards \ {c})
                                   \cup {PaidRecord(c, SameDayNextMonth(The(strptime(D))))}]_vars

\* The same for the records whose day of the month exists in the month that
\* follows: there the call returns True and does what C13 says.
C13_MarkPaidAdvancesWhenDayExists ==
    [][MarkPaidCall =>
           \A c \in NamedRecord : \A D \in c.next_bill_date :
               LET t == SameDayNextMonth(The(strptime(D)))
               IN  t.d <= DaysInMonth(t.y, t.m)
                       => /\ last'.ret = "True"
                          /\ credit_cards' = (credit_cards \ {c}) \cup {PaidRecord(c, t)}]_vars

\* C14: mark_paid succeeds on every record of the owner; when the day of
\* next_bill_date does not exist in the month that follows, the new
\* next_bill_date is the last day of that month, and the status is paid.
C14_MarkPaidClampsMonthEnd ==
    [][MarkPaidCall =>
           \A c \in NamedRecord :
               /\ last'.ret = "True"
               /\ \E c2 \in credit_cards' : c2.id = c.id /\ c2.bill_status = "paid"
               /\ \A D \in c.next_bill_date :
                      credit_cards' = (credit_cards \ {c})
                          \cup {PaidRecord(c, ClampedNextMonth(The(strptime(D))))}]_vars

\* C15: set_billing on a record of the owner, for any billing day and any
\* current date, returns True and stores the day, the amount, the grace
\* days, the status pending, and as next_bill_date the first date after today
\* that falls on the billing day.
MonthAfter(ym) ==
    IF ym.m = 12 THEN [y |-> ym.y + 1, m |-> 1] ELSE [y |-> ym.y, m |-> ym.m + 1]

\* No two months in a row lack a day of 1..31.
NextOccurrence(today, day) ==
    LET m0 == [y |-> today.y, m |-> today.m]
        m1 == MonthAfter(m0)
        m2 == MonthAfter(m1)
    IN  IF day > today.d /\ day <= DaysInMonth(m0.y, m0.m) THEN Date(m0.y, m0.m, day)
        ELSE IF day <= DaysInMonth(m1.y, m1.m) THEN Date(m1.y, m1.m, day)
        ELSE Date(m2.y, m2.m, day)

C15_SetBillingStoresNextOccurrence ==
    [][\A u \in Users, id \in CardIds, day \in BillingDays, a \in Amounts,
          g \in {21} \cup GraceDays, today \in Todays :
           call_update_billing_info(u, id, day, a, g, today) =>
               \A c \in {r \in RecordsOf(credit_cards, u) : r.id = id} :
                   /\ last'.ret = "True"
                   /\ credit_cards' = (credit_cards \ {c}) \cup
                          {[c EXCEPT !.billing_date = Some(day),
                                     !.bill_amount = Some(a),
                                     !.payment_grace_days = g,
                                     !.bill_status = "pending",
                                     !.next_bill_date =
                                         Some(isoformat(NextOccurrence(today, day)))]}]_vars

\* The same for the calls whose billing day exists both in the month of
\* today and in the month that follows.
C15_SetBillingWhenDayExists ==
    [][\A u \in Users, id \in CardIds, day \in BillingDays, a \in Amounts,
          g \in {21} \cup GraceDays, today \in Todays :
           (/\ call_update_billing_info(u, id, day, a, g, today)
            /\ day <= DaysInMonth(today.y, today.m)
            /\ day <= DaysInMonth(MonthAfter(today).y, MonthAfter(today).m)) =>
               \A c \in {r \in RecordsOf(credit_cards, u) : r.id = id} :
                   /\ last'.ret = "True"
                   /\ credit_cards' = (credit_cards \ {c}) \cup
                          {[c EXCEPT !.billing_date = Some(day),
                                     !.bill_amount = Some(a),
                                     !.payment_grace_days = g,
                                     !.bill_status = "pending",
                                     !.next_bill_date =
                                         Some(isoformat(NextOccurrence(today, day)))]}]_vars

\* C16: update_bill_amount and update_payment_grace_days on a record of the
\* owner change bill_amount (payment_grace_days) of that record and nothing
\* else in the table, and return True; when the owner has no record with
\* that id they return False and change nothing.
NarrowField ==
    CASE last'.op = "update_bill_amount" -> "bill_amount"
      [] last'.op = "update_payment_grace_days" -> "payment_grace_days"

NarrowCall == last'.op \in {"update_bill_amount", "update_payment_grace_days"}

SavedThenRead(u, state, form_data) ==
    LET after == save_user_session(user_sessions, u, state, form_data)
    IN  /\ get_user_session(after, u)
               = {[user_id |-> u, current_state |-> state, form_data |-> form_data]}
        /\ \A b \in Users \ {u} : SessionOf(after, b) = SessionOf(user_sessions, b)

C17_OneSessionPerOwner ==
    /\ \A u \in Users : Cardinality(SessionOf(user_sessions, u)) <= 1
    /\ \A u \in Users : \A state \in FormState :
           /\ SavedThenRead(u, state, EmptyDict)
           /\ SavedThenRead(u, state, [k \in BaseFields |-> <<>>])
           /\ SavedThenRead(u, state, [k \in {"card_id"} |-> 1])

\* The session of an add-card form has just been replaced by the session of
\* a billing entry.
C17_Witness ==
    /\ last.op = "set_billing" /\ last.reply = "enter_value"
    /\ last.user \in form_shown
    /\ Cardinality(SessionOf(user_sessions, last.user)) = 1
    /\ get_current_state(user_sessions, last.user) = WAITING_BILLING_DATE
    /\ FieldOf(user_sessions, last.user, "card_id") = {last.card_id}
    /\ FieldOf(user_sessions, last.user, "bank_name") = {}

\* C18: an owner without a session gets one only from an event that starts a
\* flow: /add_card, or the selection of a record for billing, amount or
\* grace days.  A field selection, a text, a done or a cancel event leaves
\* an owner without a session without one.
C18_SessionOnlyFromFlowStart ==
    [][\A u \in Users :
           (SessionOf(user_sessions, u) = {} /\ SessionOf(user_sessions', u) # {})
               => last'.user = u /\ last'.op \in FlowStarts]_vars

\* The part of C18 that speaks of text, done and cancel events.
C18_TextDoneCancelCreateNone ==
    [][\A u \in Users :
           (/\ SessionOf(user_sessions, u) = {}
            /\ last'.user = u
            /\ last'.op \in {"text", "form_done", "form_cancel"})
               => SessionOf(user_sessions', u) = {}]_vars

\* C19: no text, field-selection, done or cancel event ends in an exception,
\* whatever keys the scratch buffer has.
C19_NoEventRaises == last.reply # "KeyError"

\* C20: when several creates for the same owner and short number have all
\* returned, exactly one of them returned True, every other one returned
\* False on the duplicate, and the table holds exactly one record for the pair.
CallsFor(u, n) ==
    {p \in Callers : conns[p].pc # "idle" /\ conns[p].user_id = u /\ conns[p].card_number = n}

C20_ConcurrentCreatesOneWinner ==
    \A u \in Users, n \in CardNumbers :
        LET calls == CallsFor(u, n)
        IN  (calls # {} /\ \A p \in calls : conns[p].pc = "returned") =>
                /\ Cardinality({p \in calls : conns[p].ret = "True"}) = 1
                /\ \A p \in calls : conns[p].ret # "True" =>
                       conns[p].ret = "False" /\ conns[p].raised = "IntegrityError"
                /\ Cardinality({c \in credit_cards : c.user_id = u /\ c.card_number = n}) = 1

C20_Witness ==
    \E p, q \in Callers :
        /\ p # q
        /\ conns[p].pc = "returned" /\ conns[q].pc = "returned"
        /\ conns[p].user_id = conns[q].user_id
        /\ conns[p].card_number = conns[q].card_number
        /\ p \in conns[q].concurrent
        /\ conns[p].ret = "True" /\ conns[q].ret = "False"

\* C24: validate_expiry_date accepts a text exactly when it is MM/YYYY - two
\* digits, one '/', four digits - with the month in 1..12 and the year in
\* 2020..2030; every other text is rejected.
ExactMMYYYY(text) ==
    /\ Len(text) = 7
    /\ text[3] = "/"
    /\ \A i \in {1, 2, 4, 5, 6, 7} : IsDigit(text[i])
    /\ DigitsToNat(SubSeq(text, 1, 2)) \in 1..12
    /\ DigitsToNat(SubSeq(text, 4, 7)) \in 2020..2030

C24_ExpiryAcceptsExactFormatOnly ==
    last.op = "validate_expiry_date" => (last.ret = "True" <=> ExactMMYYYY(last.text))

\* What the validator does guarantee: every text of the form MM/YYYY is
\* accepted exactly when month and year are in range, and every accepted text
\* has one '/' with, on its sides, what int() reads as a month in 1..12 and a
\* year in 2020..2030.
C24_ExpiryAcceptsValuesInRange ==
    last.op = "validate_expiry_date" =>
        /\ ExactMMYYYY(last.text) => last.ret = "True"
        /\ (Len(last.text) = 7 /\ last.text[3] = "/" /\ ~ExactMMYYYY(last.text)
            /\ \A i \in {1, 2, 4, 5, 6, 7} : IsDigit(last.text[i])) => last.ret = "False"
        /\ last.ret = "True" =>
               LET parts == Split(last.text, "/")
               IN  /\ Len(parts) = 2
                   /\ python_int(parts[1]) # None /\ The(python_int(parts[1])) \in 1..12
                   /\ python_int(parts[2]) # None /\ The(python_int(parts[2])) \in 2020..2030

\* C25: validate_card_number accepts a text exactly when all its characters
\* are digits, spaces or hyphens and, once spaces and hyphens are removed, 4
\* or 13 to 19 digits remain.
C25_CardNumberValidator ==
    last.op = "validate_card_number" =>
        (last.ret = "True" <=>
            /\ \A i \in 1..Len(last.text) : last.text[i] \in Digits \cup {" ", "-"}
            /\ Len(StripSeparators(last.text)) \in {4} \cup 13..19)

C25_Witness ==
    /\ last.op = "validate_card_number"
    /\ last.ret = "True"
    /\ Len(StripSeparators(last.text)) = 19
    /\ Len(last.text) = 20

\* C26: validate_cvv accepts a text exactly when all its characters are
\* digits and it is 3 or 4 characters long.
C26_CvvValidator ==
    last.op = "validate_cvv" =>
        (last.ret = "True" <=> AllDigits(last.text) /\ Len(last.text) \in {3, 4})

C26_Witness ==
    /\ last.op = "validate_cvv"
    /\ last.ret = "True"
    /\ Len(last.text) = 4

\* C21: a save writes the row its event computed from the session it read,
\* without comparing it with the row it replaces (no compare-and-swap).  So
\* when a field button reads the session, a text event of the same owner then
\* stores its accepted value, and the button's save comes last, the accepted
\* value is no longer in the session: the last writer wins.
ScratchRead(rows) ==
    IF rows = {} \/ DOMAIN The(rows).form_data = {} THEN EmptyDict ELSE The(rows).form_data

\* The text event p stored its value, and the field button q, which had read
\* the session before, replaced the row p left.
LostTo(p, q) ==
    /\ p # q
    /\ events[p].op = "text" /\ events[p].pc = "returned" /\ events[p].wrote # {}
    /\ events[q].op = "form_field" /\ events[q].pc = "returned" /\ events[q].wrote # {}
    /\ events[p].user_id = events[q].user_id
    /\ events[q].replaced = events[p].wrote
    /\ FieldOf(events[p].wrote, events[p].user_id, events[p].field) = Some(events[p].value)
    /\ FieldOf(events[q].seen, events[q].user_id, events[p].field) # Some(events[p].value)

C21_LastWriterWins ==
    /\ \A q \in Callers :
           LET e == events[q]
           IN  /\ (e.pc = "returned" /\ e.wrote # {}) =>
                      e.wrote = {[user_id |-> e.user_id, current_state |-> e.target,
                                  form_data |-> ScratchRead(e.seen)]}
               /\ (e.pc = "set_state_read" /\ e.wrote # {}) =>
                      e.wrote = {[user_id |-> e.user_id, current_state |-> e.state,
                                  form_data |-> DictSet(The(e.seen).form_data,
                                                        e.field, e.value)]}
    /\ \A p, q \in Callers :
           LostTo(p, q) =>
               FieldOf(events[q].wrote, events[p].user_id, events[p].field)
                   # Some(events[p].value)

C21_Witness ==
    \E p, q \in Callers :
        /\ LostTo(p, q)
        /\ events[q].seen # {}
        /\ get_user_session(user_sessions, events[q].user_id) = events[q].wrote
        /\ FieldOf(user_sessions, events[p].user_id, events[p].field) # Some(events[p].value)

\* C22: get_user_cards returns exactly the owner's records, each once, a
\* record created later before a record created earlier - also when both were
\* created within one second of the clock - and the empty list for an owner
\* without records.
ListedRows == {last.rows[i] : i \in 1..Len(last.rows)}

C22_ListNewestFirst ==
    last.op = "get_user_cards" =>
        /\ ListedRows = RecordsOf(credit_cards, last.user)
        /\ Len(last.rows) = Cardinality(ListedRows)
        /\ \A i, j \in 1..Len(last.rows) : i < j => last.rows[i].id > last.rows[j].id

\* What the query does guarantee: the owner's records, each once, and a
\* record created in a later second before one created in an earlier second.
C22_ListByTimestamp ==
    last.op = "get_user_cards" =>
        /\ ListedRows = RecordsOf(credit_cards, last.user)
        /\ Len(last.rows) = Cardinality(ListedRows)
        /\ \A i, j \in 1..Len(last.rows) :
               last.rows[i].created_at > last.rows[j].created_at => i < j

\* C23: get_cards_by_bank_or_number returns exactly the owner's records whose
\* bank name contains the term without regard to case, or whose card number
\* contains the term, the term read as a literal text - '%' and '_' too.
Contains(text, term) ==
    \E k \in 0..(Len(text) - Len(term)) :
        \A i \in 1..Len(term) : text[k + i] = term[i]

LowerText(text) == [i \in 1..Len(text) |-> Lower(text[i])]

LiteralMatches(cards, u, term) ==
    {c \in RecordsOf(cards, u) :
        \/ Contains(LowerText(c.bank_name), LowerText(term))
        \/ Contains(c.card_number, term)}

C23_SearchLiteralSubstring ==
    last.op = "get_cards_by_bank_or_number" =>
        ListedRows = LiteralMatches(credit_cards, last.user, last.text)

\* What the query does guarantee: the literal matches for every term without
\* '%' and '_'.
C23_SearchWithoutWildcards ==
    (/\ last.op = "get_cards_by_bank_or_number"
     /\ \A i \in 1..Len(last.text) : last.text[i] \notin {"%", "_"}) =>
        ListedRows = LiteralMatches(credit_cards, last.user, last.text)

\* The states of the billing, amount and grace-days flows of a card.
CardFlowStates == {WAITING_BILLING_DATE, WAITING_BILL_AMOUNT, WAITING_GRACE_DAYS}

\* C27: a cancel event leaves its owner without a session, whatever state
\* and scratch the session had (or if there was none), and leaves the record
\* store as it was: no record created, modified or deleted.
C27_CancelClearsSessionOnly ==
    [][\A u \in Users :
           (last'.op = "form_cancel" /\ last'.user = u)
               => /\ SessionOf(user_sessions', u) = {}
                  /\ credit_cards' = credit_cards
                  /\ card_seq' = card_seq]_vars

\* A cancel arrived in a billing, amount or grace-days state of an owner who
\* has a record.
C27_Witness ==
    /\ last.op = "form_cancel"
    /\ last.before \in CardFlowStates
    /\ RecordsOf(credit_cards, last.user) # {}
    /\ SessionOf(user_sessions, last.user) = {}

\* C29: /add_card leaves its owner's session in state idle with exactly the
\* five base scratch fields, all empty, whatever session the owner had.
C29_StartResetsSession ==
    [][\A u \in Users :
           (last'.op = "add_card_command" /\ last'.user = u)
               => SessionOf(user_sessions', u)
                      = {[user_id |-> u, current_state |-> IDLE,
                          form_data |-> [k \in BaseFields |-> <<>>]]}]_vars

\* /add_card arrived in a billing, amount or grace-days state.
C29_Witness ==
    /\ last.op = "add_card_command"
    /\ last.before \in CardFlowStates
    /\ \A k \in BaseFields : FieldOf(user_sessions, last.user, k) = Some(<<>>)

\* C28: update_form_field for an owner without a session returns False and
\* leaves the sessions as they were; for an owner with a session it returns
\* True, keeps the session's state, sets the named field to the value and
\* leaves every other field and every other owner's session as it was.
C28_UpdateFormField ==
    [][\A u \in FormOwners :
           (last'.op = "update_form_field" /\ last'.user = u)
               => IF SessionOf(user_sessions, u) = {}
                  THEN last'.ret = "False" /\ user_sessions' = user_sessions
                  ELSE /\ last'.ret = "True"
                       /\ \A v \in FormOwners \ {u} :
                              SessionOf(user_sessions', v) = SessionOf(user_sessions, v)
                       /\ \E old \in SessionOf(user_sessions, u) :
                          \E new \in SessionOf(user_sessions', u) :
                              /\ SessionOf(user_sessions', u) = {new}
                              /\ new.current_state = old.current_state
                              /\ DOMAIN new.form_data
                                     = DOMAIN old.form_data \cup {last'.reply}
                              /\ new.form_data[last'.reply] = last'.text
                              /\ \A k \in DOMAIN old.form_data \ {last'.reply} :
                                     new.form_data[k] = old.form_data[k]]_vars

\* update_form_field returned False to an owner without a session while
\* another owner has one.
C28_Witness ==
    /\ last.op = "update_form_field"
    /\ last.ret = "False"
    /\ SessionOf(user_sessions, last.user) = {}
    /\ user_sessions # {}

\* The base fields of a record, as the wizard of /add_card stores them.
BaseOf(c) ==
    <<c.bank_name, c.card_number, c.expiry_date, c.cvv, c.full_card_number>>

\* C30: every event other than Done (/add_card, a field button, a text,
\* Cancel, the billing, amount and grace-days buttons and their texts, the
\* paid and delete buttons) and every direct call of the store other than
\* add_credit_card adds no record and leaves the base fields of every record
\* that is still there as they were.
C30_OnlyDoneCreates ==
    [][last'.op \notin {"form_done", "add_credit_card"}
           => \A new \in credit_cards' :
                  \E old \in credit_cards :
                      /\ old.id = new.id
                      /\ old.user_id = new.user_id
                      /\ BaseOf(old) = BaseOf(new)]_vars

\* A text of the billing, amount or grace-days flow changed a record.
C30_Witness ==
    /\ last.op = "text"
    /\ last.reply \in {"billing_updated", "amount_updated", "grace_updated"}
    /\ \E c \in credit_cards :
           /\ c.id = last.card_id
           /\ c.bill_amount # None \/ c.payment_grace_days # 21

\* C31: from the moment the amount state accepts a text until the handler
\* has cleared the session, the session the table holds is not in state idle.
C31_NeverIdleBeforeClear ==
    \A p \in Callers :
        (events[p].op = "text" /\ events[p].pc # "idle")
            => \A s \in SessionOf(user_sessions, events[p].user_id) :
                   s.current_state # IDLE

\* C31, the steps of the flow: a valid text in the billing-day state stores
\* the day and moves to the amount state; when the handler of a valid amount
\* has cleared the session, the record holds the amount.
C31_BillingFlowSteps ==
    [][/\ (last' # last /\ last'.op = "text" /\ last'.reply = "enter_amount")
           => /\ get_current_state(user_sessions', last'.user) = WAITING_BILL_AMOUNT
              /\ FieldOf(user_sessions', last'.user, "billing_date") = Some(last'.text)
       /\ (last' # last /\ last'.op = "text"
              /\ last'.reply \in {"billing_updated", "amount_updated"})
           => SessionOf(user_sessions', last'.user) = {}]_vars

\* The scratch of an owner: the form data of the session, empty when there
\* is no session.
ScratchOf(sessions, u) ==
    IF SessionOf(sessions, u) = {} THEN EmptyDict
    ELSE (CHOOSE s \in SessionOf(sessions, u) : TRUE).form_data

\* C32: a field button leaves its owner with one session, in the awaiting
\* state of the field, with the scratch the owner had before, and leaves the
\* records as they were, whatever state the session was in.
C32_FieldSelectionSetsStateOnly ==
    [][\A u \in Users :
           (last'.op = "form_field" /\ last'.user = u)
               => /\ Cardinality(SessionOf(user_sessions', u)) = 1
                  /\ get_current_state(user_sessions', u) = FieldState(last'.reply)
                  /\ ScratchOf(user_sessions', u) = ScratchOf(user_sessions, u)
                  /\ credit_cards' = credit_cards
                  /\ card_seq' = card_seq]_vars

\* A field button was pressed during a flow of a card: the session awaits
\* the field and the scratch still names the card.
C32_Witness ==
    /\ last.op = "form_field"
    /\ get_current_state(user_sessions, last.user) = FieldState(last.reply)
    /\ FieldOf(user_sessions, last.user, "card_id") # None
    /\ credit_cards # {}

\* The trailing four characters of a text of at least four.
LastFour(t) == SubSeq(t, Len(t) - 3, Len(t))

\* C33: in every session whose scratch holds a non-empty full_card_number
\* the scratch's card_number is its last four digits, and every record with
\* a full_card_number has its last four digits as card_number.
C33_ShortNumberIsTailOfFull ==
    /\ \A s \in user_sessions :
           ("full_card_number" \in DOMAIN s.form_data
            /\ Len(s.form_data["full_card_number"]) >= 4)
               => /\ "card_number" \in DOMAIN s.form_data
                  /\ s.form_data["card_number"] = LastFour(s.form_data["full_card_number"])
    /\ \A c \in credit_cards :
           \A full \in c.full_card_number :
               Len(full) >= 4 => c.card_number = LastFour(full)

\* C33, one entry of the number: right after a full number was entered the
\* scratch's card_number is its last four digits.
C33_TailAfterFullEntry ==
    [][(last'.op = "text" /\ last'.reply = "form_status"
        /\ get_current_state(user_sessions, last'.user) = WAITING_CARD_NUMBER
        /\ Len(FilterDigits(last'.text)) # 4)
           => /\ FieldOf(user_sessions', last'.user, "full_card_number")
                     = Some(FilterDigits(last'.text))
              /\ FieldOf(user_sessions', last'.user, "card_number")
                     = Some(LastFour(FilterDigits(last'.text)))]_vars

\* The buttons that start a flow of a card.
CardFlowStarts == {"set_billing", "update_amount", "set_grace_days"}

\* C34: a session in the billing-day, amount or grace-days state holds a
\* card_id in its scratch; the card_id is put there by the button that
\* starts the flow, for a record its owner has at that time, and no other
\* event changes it while the session stays in these states.  A valid text
\* in the billing-day state keeps it and moves to the amount state; a valid
\* text in the amount or grace-days state calls the update of the store and
\* leaves the owner without a session.
C34_CardFlowHasCard ==
    /\ [](\A s \in user_sessions :
              s.current_state \in CardFlowStates
                  => /\ "card_id" \in DOMAIN s.form_data
                     /\ s.form_data["card_id"] \in 1..card_seq)
    /\ [][\A u \in Users :
              LET before == get_current_state(user_sessions, u)
                  after == get_current_state(user_sessions', u)
                  started == last'.op \in CardFlowStarts /\ last'.reply = "enter_value"
              IN  last'.user = u
                  => /\ started
                        => /\ after \in CardFlowStates
                           /\ FieldOf(user_sessions', u, "card_id") = Some(last'.card_id)
                           /\ \E c \in credit_cards :
                                  c.id = last'.card_id /\ c.user_id = u
                     /\ (after \in CardFlowStates /\ ~started)
                        => /\ before \in CardFlowStates
                           /\ FieldOf(user_sessions', u, "card_id")
                                  = FieldOf(user_sessions, u, "card_id")
                     /\ (last'.op = "text" /\ before = WAITING_BILLING_DATE
                         /\ Accepts(before, last'.text))
                        => after = WAITING_BILL_AMOUNT
                     /\ (last'.op = "text" /\ before \in {WAITING_BILL_AMOUNT, WAITING_GRACE_DAYS}
                         /\ Accepts(before, last'.text))
                        => /\ last'.ret \in {"True", "False"}
                           /\ SessionOf(user_sessions', u) = {}]_vars

\* A valid amount arrived for a card that was deleted after the flow had
\* started: the update was called, found no record, and the session is gone.
C34_Witness ==
    /\ last.op = "text"
    /\ last.reply \in {"billing_failed", "amount_failed"}
    /\ last.card_id \in 1..card_seq
    /\ \A c \in credit_cards : c.id # last.card_id
    /\ SessionOf(user_sessions, last.user) = {}

\* The owner's session is in an awaiting state.
Awaiting(u) ==
    /\ SessionOf(user_sessions, u) # {}
    /\ get_current_state(user_sessions, u) # IDLE

\* C35 as stated: a done event that arrives in an awaiting state commits a
\* record and clears the session when the scratch is complete, and leaves
\* the session (state and scratch) and the records as they were when it is
\* not.  (Read for a storage that does not fail.)
C35_DoneInAwaitingState ==
    [][\A u \in Users :
           (DoneEvent(u) /\ Awaiting(u) /\ last'.raised # "Exception")
               => IF GateHolds(u)
                  THEN Committed(u) /\ SessionOf(user_sessions', u) = {}
                  ELSE NothingDone]_vars

\* C35 amended: a done event that arrives in an awaiting state commits a
\* record and clears the session when the scratch is complete, the owner has
\* no record yet with the scratch's card number and the storage does not
\* fail; in every other case it leaves the session (state and scratch) and
\* the records as they were.
C35_DoneInAwaitingStateNew ==
    [][\A u \in Users :
           (DoneEvent(u) /\ Awaiting(u))
               => IF /\ GateHolds(u)
                     /\ ~\E c \in RecordsOf(credit_cards, u) :
                             FieldOf(user_sessions, u, "card_number") = {c.card_number}
                     /\ last'.raised # "Exception"
                  THEN Committed(u) /\ SessionOf(user_sessions', u) = {}
                  ELSE NothingDone]_vars

\* A done event arrived in an awaiting state and committed a record.
C35_Witness ==
    /\ last.op = "form_done" /\ last.ret = "True"
    /\ last.before \in FormState \ {IDLE}
    /\ \E c \in credit_cards : c.id = last.card_id
    /\ SessionOf(user_sessions, last.user) = {}

\* C36: mark_paid applied to a record of the owner that is already paid and
\* has a next_bill_date D sets last_bill_date to D again, moves
\* next_bill_date into the month after D's and leaves the status paid.
C36_MarkPaidOnPaidAdvances ==
    [][MarkPaidCall =>
           \A c \in NamedRecord : \A D \in c.next_bill_date :
               c.bill_status = "paid"
                   => \E c2 \in credit_cards' :
                          /\ c2.id = c.id
                          /\ c2.bill_status = "paid"
                          /\ c2.last_bill_date = Some(D)
                          /\ \E n \in c2.next_bill_date :
                                 LET t == The(strptime(n))
                                 IN  [y |-> t.y, m |-> t.m] = MonthAfter(The(strptime(D)))]_vars

\* C36, what holds: a mark_paid that returns True does the same to a paid
\* record as to a pending one (last_bill_date becomes D, next_bill_date the
\* same day one month on, status paid), and a paid record becomes pending
\* only by update_billing_info.
C36_SuccessfulMarkPaidAdvances ==
    [][/\ (MarkPaidCall /\ last'.ret = "True")
           => \A c \in NamedRecord : \A D \in c.next_bill_date :
                  credit_cards' = (credit_cards \ {c})
                      \cup {PaidRecord(c, SameDayNextMonth(The(strptime(D))))}
       /\ \A c \in credit_cards : \A c2 \in credit_cards' :
              (c2.id = c.id /\ c.bill_status = "paid" /\ c2.bill_status = "pending")
                  => \/ last'.op = "update_billing_info"
                     \/ last'.op = "text" /\ last'.reply = "billing_updated"]_vars

\* The billing flow came to its end: a valid amount arrived for a scratch
\* that holds a billing day, and update_billing_info was called.
BillingFlowDone ==
    last'.op = "text" /\ last'.reply \in {"billing_updated", "billing_failed"}

\* C37: when the billing flow comes to its end on a record its owner has,
\* the record's payment_grace_days is 21 afterwards, whatever it was.
C37_BillingFlowResetsGrace ==
    [][BillingFlowDone =>
           \A c \in NamedRecord :
               \E c2 \in credit_cards' : c2.id = c.id /\ c2.payment_grace_days = 21]_vars

\* C37, what holds: when update_billing_info returned True at the end of
\* the billing flow, the record's payment_grace_days is 21.
C37_UpdatedBillingResetsGrace ==
    [][(BillingFlowDone /\ last'.ret = "True") =>
           \A c \in NamedRecord :
               \E c2 \in credit_cards' : c2.id = c.id /\ c2.payment_grace_days = 21]_vars

\* An id that was given to a record and is in the table no more.
Deleted(id) == id \in 1..card_seq /\ \A c \in credit_cards : c.id # id

\* C38: every record's id was counted by the id counter; the counter never
\* falls, a record that appears has an id above it, and an id stays with
\* its owner: an id that was deleted never comes back.  An event or call
\* that names a deleted id (other than a create) gets not-found or False
\* and leaves all records as they were.
C38_IdsNeverReused ==
    /\ [](\A c \in credit_cards : c.id \in 1..card_seq)
    /\ [][/\ card_seq' >= card_seq
          /\ \A c \in credit_cards' :
                 \/ c.id > card_seq
                 \/ \E d \in credit_cards : d.id = c.id /\ d.user_id = c.user_id
          /\ (Deleted(last'.card_id) /\ last'.op \notin {"add_credit_card", "form_done"})
                 => /\ last'.ret \in {"False", "None"}
                    /\ credit_cards' = credit_cards]_vars

\* The amount of a flow started for a record that was deleted since arrived
\* while a record created later is in the table: the update found nothing.
C38_Witness ==
    /\ last.op = "text"
    /\ last.reply \in {"billing_failed", "amount_failed", "grace_failed"}
    /\ Deleted(last.card_id)
    /\ \E c \in credit_cards : c.id > last.card_id

\* C39: a text of an owner who has no session, or whose session is idle, is
\* ignored: the sessions, the records and the id counter stay as they were.
C39_TextInIdleIgnored ==
    [][\A u \in Users :
           (last'.op = "text" /\ last'.user = u
            /\ get_current_state(user_sessions, u) = IDLE)
               => /\ last'.reply = "ignored"
                  /\ user_sessions' = user_sessions
                  /\ credit_cards' = credit_cards
                  /\ card_seq' = card_seq]_vars

\* A text that the amount state would accept was ignored in an idle session
\* that holds a bank name, of an owner who has a record.
C39_Witness ==
    /\ last.op = "text" /\ last.reply = "ignored" /\ last.text = T_amount
    /\ \E s \in SessionOf(user_sessions, last.user) :
           s.current_state = IDLE /\ Filled(FieldOf(user_sessions, last.user, "bank_name"))
    /\ RecordsOf(credit_cards, last.user) # {}
====
